---- MODULE Spec2Model ----
(***************************************************************************)
(* Retrieval-and-context-assembly pipeline of Vectorpenter.                *)
(*                                                                         *)
(* Each component of the pipeline is a group of variables with the         *)
(* operators that compute what its code computes and one action per call.  *)
(* A specification SpecX runs one component; the variables of the other    *)
(* components stay at their idle values.                                   *)
(***************************************************************************)
EXTENDS Integers, Sequences, FiniteSets, TLC

VARIABLES
    \* ingest/pipeline.py, ingest_path over one file: the text of the file,
    \* the hash column of its documents row (empty when there is no row), the
    \* rows of the chunks table, the number of runs made, what the last run
    \* found and returned, and the text of the last run that stored the file
    ip_file, ip_hash, ip_chunks, ip_runs, ip_last, ip_has_ingested, ip_ingested,
    \* The module-level client handles (index/embedder.py _client,
    \* search/typesense_client.py _client) and the clients rag/reranker.py
    \* builds: the handle each backend's global holds (NoClient or the number
    \* of the client object), the number of client objects constructed per
    \* backend, and for each thread the backend it is calling, its position
    \* in the call, the client object it works with and the calls it made
    cl_handle, cl_constructed, cl_backend, cl_pc, cl_client, cl_calls,
    \* core/cache.py, one LRUCache: max_size and default_ttl, the OrderedDict
    \* _cache as the list of its entries in dictionary order, the clock
    \* time.time() reads, the number of operations made, what the last of
    \* them was and found, and for each key the number of the last
    \* operation that inserted or successfully read it
    lc_max_size, lc_default_ttl, lc_cache, lc_now, lc_ops, lc_last, lc_used,
    \* core/resilience.py, one CircuitBreaker: its configuration, its fields,
    \* the clock time.time() reads, the number of calls made through the
    \* wrapper, what the last of them found and did, and the number of
    \* expected failures of the wrapped function since its last other outcome
    cb_failure_threshold, cb_recovery_timeout, cb_expected_exception,
    cb_failure_count, cb_last_failure_time, cb_state, cb_now, cb_calls,
    cb_last, cb_streak,
    \* rag/retriever.py, vector_search: arguments of the last call, what the
    \* index does when it is queried, whether idx.query was called, the
    \* exception vector_search raised ("none" when it returned) and the
    \* returned pair
    vs_called, vs_query_vec, vs_top_k, vs_pinecone, vs_queried, vs_raised,
    vs_matches, vs_best_score,
    \* search/hybrid.py, hybrid_merge: arguments and returned list of the last call
    hm_called, hm_keyword_results, hm_vector_results, hm_k, hm_merged,
    \* rag/context_builder.py, build_context and build_combined_context: which
    \* of the two was called ("none" before the call), its arguments, the
    \* exception it raised ("none" when it returned) and the returned string
    cx_called, cx_local_snippets, cx_external_snippets, cx_max_chars,
    cx_raised, cx_result,
    \* core/config.py, the settings object: the fields the grounding decider
    \* and the reranker read. They are fixed when the process starts.
    google_search_api_key, google_search_cx, grounding_sim_threshold,
    voyage_api_key, cohere_api_key,
    \* gcp/search.py, should_use_grounding: arguments and returned value
    sg_called, sg_best_score, sg_num_results, sg_k, sg_result,
    \* rag/reranker.py, rerank: the snippet list passed, what each provider's
    \* client does when it is called, the providers that were called, the
    \* exception rerank raised ("none" when it returned) and the returned list
    rr_called, rr_snippets, rr_voyage_outcome, rr_cohere_outcome,
    rr_voyage_called, rr_cohere_called, rr_raised, rr_result,
    \* rag/context_builder.py, expand_with_neighbors: arguments of the last
    \* call, what the chunk store does during it, the step whose exception
    \* the except clause caught ("none" when no step raised) and the
    \* returned list
    ex_called, ex_snippets, ex_left, ex_right, ex_max_chars, ex_db,
    ex_failed_step, ex_result,
    \* gcp/search.py, google_ground: max_results of the last call, what the
    \* HTTP request did, the exception google_ground raised ("none" when it
    \* returned) and the returned list
    gg_called, gg_max_results, gg_http, gg_raised, gg_result,
    \* core/config.py, the settings object: the fields is_vertex_chat_enabled
    \* reads. They are fixed when the process starts.
    use_vertex_chat, gcp_project_id, google_application_credentials,
    \* rag/generator.py, answer: what each chat provider does when called,
    \* the providers that were called, the exception answer raised ("none"
    \* when it returned) and the returned string
    an_called, an_vertex_outcome, an_openai_outcome, an_vertex_called,
    an_openai_called, an_raised, an_result,
    \* core/config.py, the settings object: the fields the query surfaces
    \* read through is_available and is_grounding_enabled
    typesense_api_key, use_google_grounding,
    \* apps/api.py query and apps/cli.py cmd_ask, one query: the surface
    \* called ("none" before the call), the statement it has reached, the
    \* request, what the keyword server did when is_available asked it,
    \* the locals matches, best_score, search_type (the list of the parts
    \* concatenated so far), snippets, external_snippets and pack, the
    \* provider whose scores the snippets carry, the calls made so far in
    \* order, the call that raised and its exception ("none" when none
    \* did), the exception the surface raised, and what the surface returned
    \* or printed
    q_surface, q_pc, q_k, q_hybrid, q_rerank, q_typesense, q_matches,
    q_best_score, q_search_type, q_snippets, q_rescored_by,
    q_external_snippets, q_pack, q_stages, q_failed_stage, q_exception,
    q_raised, q_response

hmVars == <<hm_called, hm_keyword_results, hm_vector_results, hm_k, hm_merged>>
cxVars == <<cx_called, cx_local_snippets, cx_external_snippets, cx_max_chars,
            cx_raised, cx_result>>

settingsVars == <<google_search_api_key, google_search_cx, grounding_sim_threshold,
                  voyage_api_key, cohere_api_key>>
sgVars == <<sg_called, sg_best_score, sg_num_results, sg_k, sg_result>>
rrVars == <<rr_called, rr_snippets, rr_voyage_outcome, rr_cohere_outcome,
            rr_voyage_called, rr_cohere_called, rr_raised, rr_result>>
exVars == <<ex_called, ex_snippets, ex_left, ex_right, ex_max_chars, ex_db,
            ex_failed_step, ex_result>>
ggVars == <<gg_called, gg_max_results, gg_http, gg_raised, gg_result>>
chatVars == <<use_vertex_chat, gcp_project_id, google_application_credentials>>
anVars == <<an_called, an_vertex_outcome, an_openai_outcome, an_vertex_called,
            an_openai_called, an_raised, an_result>>

qcfgVars == <<typesense_api_key, use_google_grounding>>
qVars == <<q_surface, q_pc, q_k, q_hybrid, q_rerank, q_typesense, q_matches,
           q_best_score, q_search_type, q_snippets, q_rescored_by,
           q_external_snippets, q_pack, q_stages, q_failed_stage, q_exception,
           q_raised, q_response>>

vsVars == <<vs_called, vs_query_vec, vs_top_k, vs_pinecone, vs_queried, vs_raised,
           vs_matches, vs_best_score>>

cbVars == <<cb_failure_threshold, cb_recovery_timeout, cb_expected_exception,
           cb_failure_count, cb_last_failure_time, cb_state, cb_now, cb_calls,
           cb_last, cb_streak>>

lcVars == <<lc_max_size, lc_default_ttl, lc_cache, lc_now, lc_ops, lc_last, lc_used>>

clVars == <<cl_handle, cl_constructed, cl_backend, cl_pc, cl_client, cl_calls>>

ipVars == <<ip_file, ip_hash, ip_chunks, ip_runs, ip_last, ip_has_ingested, ip_ingested>>

vars == <<hmVars, cxVars, settingsVars, sgVars, rrVars, exVars, ggVars, chatVars,
          anVars, qcfgVars, qVars,
          vsVars,
          cbVars,
          lcVars,
          clVars,
          ipVars>>

(***************************************************************************)
(* Generic helpers                                                         *)
(***************************************************************************)

\* All sequences over S of length at most n.
SeqUpTo(S, n) == UNION {[1..m -> S] : m \in 0..n}

\* Python's seq[:n] for any integer n >= 0.
Take(s, n) == SubSeq(s, 1, IF n < Len(s) THEN n ELSE Len(s))

Range(s) == {s[i] : i \in DOMAIN s}

(***************************************************************************)
(* Hybrid Merger: search/hybrid.py                                         *)
(***************************************************************************)

\* Chunk identifiers. hybrid_merge only compares them for equality.
Ids == {"A", "B", "C", "D", "E"}

\* Longest result list handed to hybrid_merge, and largest k.
MaxLen == 3
MaxK == 4

\* A Match as hybrid_merge reads it: the 'id' key. Scores and metadata ride
\* along untouched and are left out; 'source' is the tag the merge writes.
Tagged(id, src) == [id |-> id, source |-> src]

\* The locals of hybrid_merge before the while loop (lines 69-77). The two
\* iterators are the number of items already taken from each list.
MergeStart ==
    [ seen_ids |-> {}, merged |-> <<>>,
      keyword_iter |-> 0, vector_iter |-> 0,
      keyword_done |-> FALSE, vector_done |-> FALSE ]

\* KeywordTurn without the seen_ids test of line 84.
KeywordTurnNoDedup(st, keyword_results) ==
    IF st.keyword_done THEN st
    ELSE IF st.keyword_iter >= Len(keyword_results)
         THEN [st EXCEPT !.keyword_done = TRUE]
         ELSE LET id == keyword_results[st.keyword_iter + 1]
              IN  [st EXCEPT !.keyword_iter = @ + 1,
                             !.seen_ids = @ \cup {id},
                             !.merged = Append(@, Tagged(id, "keyword"))]

\* Lines 81-89: the keyword half of one loop iteration. next() either raises
\* StopIteration (the list is used up) or yields one item, which is appended
\* only if its id was not seen; a seen item is dropped and the turn is over.
KeywordTurn(st, keyword_results) ==
    IF st.keyword_done THEN st
    ELSE IF st.keyword_iter >= Len(keyword_results)
         THEN [st EXCEPT !.keyword_done = TRUE]
         ELSE LET id == keyword_results[st.keyword_iter + 1]
              IN  IF id \notin st.seen_ids
                  THEN [st EXCEPT !.keyword_iter = @ + 1,
                                  !.seen_ids = @ \cup {id},
                                  !.merged = Append(@, Tagged(id, "keyword"))]
                  ELSE [st EXCEPT !.keyword_iter = @ + 1]

\* Lines 92-100: the vector half, skipped when merged already holds k items.
VectorTurn(st, vector_results, k) ==
    IF st.vector_done \/ ~(Len(st.merged) < k) THEN st
    ELSE IF st.vector_iter >= Len(vector_results)
         THEN [st EXCEPT !.vector_done = TRUE]
         ELSE LET id == vector_results[st.vector_iter + 1]
              IN  IF id \notin st.seen_ids
                  THEN [st EXCEPT !.vector_iter = @ + 1,
                                  !.seen_ids = @ \cup {id},
                                  !.merged = Append(@, Tagged(id, "vector"))]
                  ELSE [st EXCEPT !.vector_iter = @ + 1]

\* The loop condition with "or" for "and": stop once either list is used up.
MergeContinuesUntilEither(st, k) ==
    Len(st.merged) < k /\ ~(st.keyword_done \/ st.vector_done)

\* Line 79: the loop condition.
MergeContinues(st, k) ==
    Len(st.merged) < k /\ ~(st.keyword_done /\ st.vector_done)

RECURSIVE MergeLoop(_, _, _, _)
MergeLoop(st, keyword_results, vector_results, k) ==
    IF MergeContinues(st, k)
    THEN MergeLoop(VectorTurn(KeywordTurn(st, keyword_results), vector_results, k),
                   keyword_results, vector_results, k)
    ELSE st

\* Lines 67-102.
hybrid_merge(keyword_results, vector_results, k) ==
    Take(MergeLoop(MergeStart, keyword_results, vector_results, k).merged, k)

\* Ids are opaque, so the keyword list is enumerated up to renaming: its
\* first occurrences appear in the order A, B, C, ... (repeats are allowed).
\* The vector list is any list over Ids.
IdOrder == <<"A", "B", "C", "D", "E">>
IdRank(id) == CHOOSE i \in DOMAIN IdOrder : IdOrder[i] = id
FirstUseOrdered(s) ==
    \A i \in DOMAIN s :
        \A r \in 1..(IdRank(s[i]) - 1) : \E j \in 1..(i - 1) : s[j] = IdOrder[r]

KeywordLists == {s \in SeqUpTo(Ids, MaxLen) : FirstUseOrdered(s)}
VectorLists == SeqUpTo(Ids, MaxLen)

HmIdle ==
    /\ hm_called = FALSE
    /\ hm_keyword_results = <<>>
    /\ hm_vector_results = <<>>
    /\ hm_k = 1
    /\ hm_merged = <<>>

\* One call hybrid_merge(keyword_results, vector_results, k) with k >= 1.
\* The function keeps nothing between calls, so a behaviour holds one call.
HybridMergeCall ==
    /\ ~hm_called
    /\ \E kw \in KeywordLists, vec \in VectorLists, k \in 1..MaxK :
        /\ hm_called' = TRUE
        /\ hm_keyword_results' = kw
        /\ hm_vector_results' = vec
        /\ hm_k' = k
        /\ hm_merged' = hybrid_merge(kw, vec, k)

(***************************************************************************)
(* Context Assembler: rag/context_builder.py                               *)
(*                                                                         *)
(* A Python str is the sequence of its characters. The texts of snippets   *)
(* and of web results are runs of a plain letter, so that the labels the   *)
(* assembler writes are the only brackets of a rendered string.            *)
(***************************************************************************)

\* Largest character budget, most local snippets and most external results
\* of one call.
MaxChars == 320
MaxLocal == 2
MaxExt == 2

Rep(c, n) == [i \in 1..n |-> c]

Digit(d) == SubSeq(<<"0", "1", "2", "3", "4", "5", "6", "7", "8", "9">>, d + 1, d + 1)

\* str(n) of a non-negative int, as the f-strings of lines 30 and 56 format it.
RECURSIVE Dec(_)
Dec(n) == IF n < 10 THEN Digit(n) ELSE Dec(n \div 10) \o Digit(n % 10)

\* Line 30: f"[#{i}] {s['doc']}::{s['seq']}\n{s['text']}\n\n".
Block(i, s) ==
    <<"[", "#">> \o Dec(i) \o <<"]", " ">> \o s.doc \o <<":", ":">> \o Dec(s.seq)
        \o <<"\n">> \o s.text \o <<"\n", "\n">>

\* build_context whose overflowing block is skipped ("continue") instead of
\* ending the loop ("break").
RECURSIVE ContextLoopSkipping(_, _, _, _, _, _)
ContextLoopSkipping(snippets, i, buf, total, num, den) ==
    IF i > Len(snippets) THEN buf
    ELSE LET chunk == Block(i, snippets[i])
         IN  IF den * (total + Len(chunk)) > num
             THEN ContextLoopSkipping(snippets, i + 1, buf, total, num, den)
             ELSE ContextLoopSkipping(snippets, i + 1, buf \o chunk,
                                      total + Len(chunk), num, den)

build_context_skipping(snippets, num, den) ==
    ContextLoopSkipping(snippets, 1, <<>>, 0, num, den)

\* Lines 27-34: the loop of build_context from snippet i on. buf is the join of
\* the blocks appended so far. The budget max_chars is the fraction num/den:
\* build_combined_context passes max_chars * 0.8, a float, and
\* total + len(chunk) > max_chars * 0.8 is den*(total + len(chunk)) > num with
\* num/den = 4*max_chars/5 (the float product is exact enough for every
\* max_chars below 2^53 that the comparison with an int agrees).
RECURSIVE ContextLoop(_, _, _, _, _, _)
ContextLoop(snippets, i, buf, total, num, den) ==
    IF i > Len(snippets) THEN buf
    ELSE LET chunk == Block(i, snippets[i])
         IN  IF den * (total + Len(chunk)) > num
             THEN buf
             ELSE ContextLoop(snippets, i + 1, buf \o chunk,
                              total + Len(chunk), num, den)

\* Lines 26-35, with max_chars = num/den.
build_context(snippets, num, den) ==
    ContextLoop(snippets, 1, <<>>, 0, num, den)

\* Line 50.
ExternalHeader ==
    << "#", "#", "#", " ", "E", "x", "t", "e", "r", "n", "a", "l", " ",
       "W", "e", "b", " ", "C", "o", "n", "t", "e", "x", "t", " ",
       "(", "G", "o", "o", "g", "l", "e", ")", "\n" >>

\* Line 56: f"[G#{i}] {title}\n{snippet}\n({link})\n\n". The three keys are
\* always present in what google_ground returns (gcp/search.py:52-56), so the
\* defaults of s.get are never used.
ExternalEntry(i, s) ==
    <<"[", "G", "#">> \o Dec(i) \o <<"]", " ">> \o s.title \o <<"\n">> \o s.snippet
        \o <<"\n", "(">> \o s.link \o <<")", "\n", "\n">>

RECURSIVE ExternalLoop(_, _)
ExternalLoop(snips, n) ==
    IF n = 0 THEN <<>> ELSE ExternalLoop(snips, n - 1) \o ExternalEntry(n, snips[n])

\* Lines 37-58.
build_external_snippets(snips) ==
    IF snips = <<>> THEN <<>> ELSE ExternalHeader \o ExternalLoop(snips, Len(snips))

\* What a call leaves: the exception raised ("none") and the returned string.
Returned(str) == [raised |-> "none", value |-> str]
Raised(exc) == [raised |-> exc, value |-> <<>>]

\* build_combined_context that appends the external section without looking
\* at the room that is left.
build_combined_context_unbounded(local_snippets, external_snippets, max_chars) ==
    LET local_context == build_context(local_snippets, 4 * max_chars, 5)
        external_context == build_external_snippets(external_snippets)
    IN  IF external_context # <<>>
        THEN Returned(local_context \o <<"\n">> \o external_context)
        ELSE Returned(local_context)

\* build_combined_context that puts the external section first.
build_combined_context_external_first(local_snippets, external_snippets, max_chars) ==
    LET local_context == build_context(local_snippets, 4 * max_chars, 5)
        external_context == build_external_snippets(external_snippets)
        remaining_chars == max_chars - Len(local_context)
    IN  IF external_context # <<>> /\ remaining_chars > 200
           /\ Len(external_context) <= remaining_chars
        THEN Returned(external_context \o <<"\n">> \o local_context)
        ELSE Returned(local_context)

\* Lines 60-98. The module never binds the name logger (it is imported only
\* inside expand_with_neighbors, line 115), so logger.debug of line 96 raises
\* NameError after the truncated section was built and before line 98.
build_combined_context(local_snippets, external_snippets, max_chars) ==
    LET local_context == build_context(local_snippets, 4 * max_chars, 5)
        external_context == build_external_snippets(external_snippets)
        remaining_chars == max_chars - Len(local_context)
    IN  IF external_context # <<>> /\ remaining_chars > 200
        THEN IF Len(external_context) <= remaining_chars
             THEN Returned(local_context \o <<"\n">> \o external_context)
             ELSE Raised("NameError")
        ELSE Returned(local_context)

\* Hydrated snippets: a short chunk and a long one with a two-digit seq.
LocalSnippets ==
    { [id |-> "A", doc |-> <<"d">>, seq |-> 0, text |-> Rep("x", 8)],
      [id |-> "B", doc |-> <<"e">>, seq |-> 12, text |-> Rep("x", 60)] }

\* Web results as google_ground returns them: a short one and a long one.
ExternalResults ==
    { [title |-> <<"t">>, snippet |-> Rep("y", 10), link |-> <<"u">>],
      [title |-> <<"T">>, snippet |-> Rep("y", 200), link |-> <<"v">>] }

CxIdle ==
    /\ cx_called = "none"
    /\ cx_local_snippets = <<>>
    /\ cx_external_snippets = <<>>
    /\ cx_max_chars = 0
    /\ cx_raised = "none"
    /\ cx_result = <<>>

\* One call build_context(snippets, max_chars) with an int budget.
BuildContextCall ==
    /\ cx_called = "none"
    /\ \E snippets \in SeqUpTo(LocalSnippets, MaxLocal), max_chars \in 0..MaxChars :
        /\ cx_called' = "build_context"
        /\ cx_local_snippets' = snippets
        /\ cx_external_snippets' = <<>>
        /\ cx_max_chars' = max_chars
        /\ cx_raised' = "none"
        /\ cx_result' = build_context(snippets, max_chars, 1)

\* One call build_combined_context(local_snippets, external_snippets, max_chars).
BuildCombinedContextCall ==
    /\ cx_called = "none"
    /\ \E local_snippets \in SeqUpTo(LocalSnippets, MaxLocal),
          external_snippets \in SeqUpTo(ExternalResults, MaxExt),
          max_chars \in 0..MaxChars :
        LET out == build_combined_context(local_snippets, external_snippets, max_chars)
        IN  /\ cx_called' = "build_combined_context"
            /\ cx_local_snippets' = local_snippets
            /\ cx_external_snippets' = external_snippets
            /\ cx_max_chars' = max_chars
            /\ cx_raised' = out.raised
            /\ cx_result' = out.value

(***************************************************************************)
(* Settings: core/config.py                                                *)
(*                                                                         *)
(* An API key is os.getenv(...): None when the variable is unset, else a   *)
(* string that may be empty. The code only tests keys for truth.           *)
(* Settings (core/config.py:8-40) declares voyage_api_key; it declares     *)
(* none of google_search_api_key, google_search_cx,                        *)
(* grounding_sim_threshold and cohere_api_key, which gcp/search.py and     *)
(* rag/reranker.py read. These four are modelled as the configuration      *)
(* values the design document describes.                                   *)
(***************************************************************************)

KeyValues == {"None", "", "key"}
Truthy(v) == v \notin {"None", ""}

\* Similarity scores and the threshold are floats that the code only
\* compares with <; they are counted in steps of the score scale.
MaxScore == 3
Scores == (-1)..MaxScore

SettingsIdle ==
    /\ google_search_api_key = "None"
    /\ google_search_cx = "None"
    /\ grounding_sim_threshold = 0
    /\ voyage_api_key = "None"
    /\ cohere_api_key = "None"

(***************************************************************************)
(* Grounding Decider: gcp/search.py                                        *)
(***************************************************************************)

\* Most local results and largest requested k of one decision.
MaxResults == 3
MaxGroundK == 6

\* Lines 76-83.
is_google_search_available ==
    Truthy(google_search_api_key) /\ Truthy(google_search_cx)

\* should_use_grounding without the availability test of lines 183-184.
should_use_grounding_unguarded(best_score, num_results, k) ==
    \/ best_score < grounding_sim_threshold
    \/ num_results < (k \div 2)

\* Lines 171-198. k // 2 is floor division, as \div is.
should_use_grounding(best_score, num_results, k) ==
    IF ~is_google_search_available
    THEN FALSE
    ELSE LET weak_similarity == best_score < grounding_sim_threshold
             insufficient_results == num_results < (k \div 2)
         IN  weak_similarity \/ insufficient_results

SgIdle ==
    /\ sg_called = FALSE
    /\ sg_best_score = 0
    /\ sg_num_results = 0
    /\ sg_k = 1
    /\ sg_result = FALSE

\* The process starts with any search configuration.
SgInit ==
    /\ SgIdle
    /\ google_search_api_key \in KeyValues
    /\ google_search_cx \in KeyValues
    /\ grounding_sim_threshold \in 0..MaxScore
    /\ voyage_api_key = "None"
    /\ cohere_api_key = "None"

\* One call should_use_grounding(best_score, num_results, k).
ShouldUseGroundingCall ==
    /\ ~sg_called
    /\ \E best_score \in Scores, num_results \in 0..MaxResults, k \in 1..MaxGroundK :
        /\ sg_called' = TRUE
        /\ sg_best_score' = best_score
        /\ sg_num_results' = num_results
        /\ sg_k' = k
        /\ sg_result' = should_use_grounding(best_score, num_results, k)
    /\ UNCHANGED settingsVars

(***************************************************************************)
(* Reranker: rag/reranker.py                                               *)
(***************************************************************************)

\* Longest snippet list handed to rerank.
MaxRerank == 2

\* Hydrated snippets as the query surfaces pass them.
RerankSnippets ==
    { [id |-> "chunk1", text |-> "t1", score |-> 3],
      [id |-> "chunk2", text |-> "t2", score |-> 2],
      [id |-> "chunk3", text |-> "t3", score |-> 1] }

Injective(s) == \A i, j \in DOMAIN s : s[i] = s[j] => i = j

SnippetLists == {s \in SeqUpTo(RerankSnippets, MaxRerank) : Injective(s)}

\* What a provider's client does when called with n documents and top_k = n:
\* the import fails, the call raises (network, quota, ...), or it answers with
\* the n indices in relevance order, scored in descending order.
IndexOrders(n) == {p \in [1..n -> 1..n] : Injective(p)}
Answer(p) == [j \in DOMAIN p |-> [index |-> p[j], relevance_score |-> Len(p) - j + 1]]
Outcomes(n) ==
    {[kind |-> "ImportError", results |-> <<>>], [kind |-> "Exception", results |-> <<>>]}
        \cup {[kind |-> "ok", results |-> Answer(p)] : p \in IndexOrders(n)}

\* Lines 51-57 and 88-94: the snippets in the order of the answer, each a
\* copy annotated with rerank_score and reranker.
Reranked(snippets, results, name) ==
    [j \in DOMAIN results |->
        ("rerank_score" :> results[j].relevance_score)
            @@ ("reranker" :> name)
            @@ snippets[results[j].index]]

\* Lines 32-67. Both except clauses return the snippets passed in, so the
\* function never raises.
voyage_rerank(snippets, outcome) ==
    IF outcome.kind = "ok"
    THEN Returned(Reranked(snippets, outcome.results, "voyage"))
    ELSE Returned(snippets)

\* Lines 69-104.
cohere_rerank(snippets, outcome) ==
    IF outcome.kind = "ok"
    THEN Returned(Reranked(snippets, outcome.results, "cohere"))
    ELSE Returned(snippets)

RerankReturn(value, voyage_called, cohere_called) ==
    [raised |-> "none", value |-> value,
     voyage_called |-> voyage_called, cohere_called |-> cohere_called]

\* Lines 28-30.
IdentityFallback(snippets, voyage_called, cohere_called) ==
    RerankReturn(snippets, voyage_called, cohere_called)

\* Lines 21-26 and the fallback after them.
TryCohere(snippets, cohere_outcome, voyage_called) ==
    IF Truthy(cohere_api_key)
    THEN LET c == cohere_rerank(snippets, cohere_outcome)
         IN  IF c.raised = "none"
             THEN RerankReturn(c.value, voyage_called, TRUE)
             ELSE IdentityFallback(snippets, voyage_called, TRUE)
    ELSE IdentityFallback(snippets, voyage_called, FALSE)

\* rerank that calls Voyage without testing settings.voyage_api_key.
rerank_keyless(snippets, voyage_outcome, cohere_outcome) ==
    IF snippets = <<>>
    THEN RerankReturn(snippets, FALSE, FALSE)
    ELSE RerankReturn(voyage_rerank(snippets, voyage_outcome).value, TRUE, FALSE)

\* Lines 6-30. The question is only passed on to the provider.
rerank(snippets, voyage_outcome, cohere_outcome) ==
    IF snippets = <<>>
    THEN RerankReturn(snippets, FALSE, FALSE)
    ELSE IF Truthy(voyage_api_key)
         THEN LET v == voyage_rerank(snippets, voyage_outcome)
              IN  IF v.raised = "none"
                  THEN RerankReturn(v.value, TRUE, FALSE)
                  ELSE TryCohere(snippets, cohere_outcome, TRUE)
         ELSE TryCohere(snippets, cohere_outcome, FALSE)

RrIdle ==
    /\ rr_called = FALSE
    /\ rr_snippets = <<>>
    /\ rr_voyage_outcome = [kind |-> "Exception", results |-> <<>>]
    /\ rr_cohere_outcome = [kind |-> "Exception", results |-> <<>>]
    /\ rr_voyage_called = FALSE
    /\ rr_cohere_called = FALSE
    /\ rr_raised = "none"
    /\ rr_result = <<>>

\* The process starts with any rerank configuration.
RrInit ==
    /\ RrIdle
    /\ voyage_api_key \in KeyValues
    /\ cohere_api_key \in KeyValues
    /\ google_search_api_key = "None"
    /\ google_search_cx = "None"
    /\ grounding_sim_threshold = 0

\* One call rerank(question, snippets).
RerankCall ==
    /\ ~rr_called
    /\ \E snippets \in SnippetLists :
        \E voyage_outcome \in Outcomes(Len(snippets)),
           cohere_outcome \in Outcomes(Len(snippets)) :
            LET out == rerank(snippets, voyage_outcome, cohere_outcome)
            IN  /\ rr_called' = TRUE
                /\ rr_snippets' = snippets
                /\ rr_voyage_outcome' = voyage_outcome
                /\ rr_cohere_outcome' = cohere_outcome
                /\ rr_voyage_called' = out.voyage_called
                /\ rr_cohere_called' = out.cohere_called
                /\ rr_raised' = out.raised
                /\ rr_result' = out.value
    /\ UNCHANGED settingsVars

(***************************************************************************)
(* Neighbor Expander: rag/context_builder.py, expand_with_neighbors        *)
(***************************************************************************)

\* Longest snippet list handed to expand_with_neighbors, and widest window.
MaxExpandLen == 3
MaxWindow == 1

\* Python's None in the 'seq' key of a snippet that hydrate_matches could
\* not find in the store; the 'doc' key of such a snippet is "None".
NoneSeq == -1

\* The rows of table chunks (id, document_id, seq, text): document "d" has
\* three chunks, document "e" has one.
Chunks ==
    { [id |-> "d0", document_id |-> "d", seq |-> 0, text |-> Rep("x", 4)],
      [id |-> "d1", document_id |-> "d", seq |-> 1, text |-> Rep("x", 6)],
      [id |-> "d2", document_id |-> "d", seq |-> 2, text |-> Rep("x", 3)],
      [id |-> "e0", document_id |-> "e", seq |-> 0, text |-> Rep("x", 2)] }

\* Python's order of the document identifiers, as str.__lt__ gives it.
DocOrder == <<"d", "e">>
DocRank(doc) == CHOOSE i \in DOMAIN DocOrder : DocOrder[i] = doc

\* The score a match carries into the hydrator, one per chunk identifier.
MatchScore(id) ==
    CASE id = "d0" -> 5 [] id = "d1" -> 4 [] id = "d2" -> 3
      [] id = "e0" -> 2 [] OTHER -> 1

\* hydrate_matches for one match: the row's text, document and sequence
\* number, or "", None and None when the store has no row with that id.
Hydrated(id) ==
    IF \E c \in Chunks : c.id = id
    THEN LET c == CHOOSE c \in Chunks : c.id = id
         IN  [id |-> id, doc |-> c.document_id, seq |-> c.seq, text |-> c.text,
              score |-> MatchScore(id), neighbor_of |-> "None"]
    ELSE [id |-> id, doc |-> "None", seq |-> NoneSeq, text |-> <<>>,
          score |-> MatchScore(id), neighbor_of |-> "None"]

\* The snippets a query can hand to the expander: the hydrated chunks and
\* one match, "u", that the store does not hold.
HydratedSnippets == {Hydrated(id) : id \in {c.id : c \in Chunks} \cup {"u"}}

\* What the chunk store does during one call: engine.begin() raises, or it
\* succeeds and the first 'executes' calls of conn.execute succeed, the
\* next one raising.
DbBehaviours ==
    {[begin |-> "raises", executes |-> 0]}
        \cup {[begin |-> "ok", executes |-> n] : n \in 0..MaxExpandLen}

\* Lines 144-155: the sequence numbers requested around base_seq.
RECURSIVE LeftSeqs(_, _, _)
LeftSeqs(base_seq, i, left) ==
    IF i > left THEN <<>>
    ELSE (IF base_seq - i >= 0 THEN <<base_seq - i>> ELSE <<>>)
             \o LeftSeqs(base_seq, i + 1, left)

\* neighbor_seqs that also requests the chunk one past the right window.
neighbor_seqs_too_far(base_seq, left, right) ==
    LeftSeqs(base_seq, 1, left) \o [i \in 1..(right + 1) |-> base_seq + i]

neighbor_seqs(base_seq, left, right) ==
    LeftSeqs(base_seq, 1, left) \o [i \in 1..right |-> base_seq + i]

\* Lines 162-173: the rows of the document with one of the requested
\* sequence numbers, ORDER BY seq.
RECURSIVE OrderBySeq(_)
OrderBySeq(rows) ==
    IF rows = {} THEN <<>>
    ELSE LET first == CHOOSE r \in rows : \A q \in rows : r.seq <= q.seq
         IN  <<first>> \o OrderBySeq(rows \ {first})

SelectNeighbors(doc_id, seqs) ==
    OrderBySeq({c \in Chunks : c.document_id = doc_id /\ c.seq \in Range(seqs)})

\* Lines 182-189.
neighbor_snippet(row, s) ==
    [id |-> row.id, doc |-> row.document_id, seq |-> row.seq, text |-> row.text,
     score |-> s.score, neighbor_of |-> s.id]

\* Lines 176-192: the loop over the rows of one query.
RECURSIVE AddNeighbors(_, _, _, _)
AddNeighbors(st, rows, j, s) ==
    IF j > Len(rows) THEN st
    ELSE IF rows[j].id \in st.seen
         THEN AddNeighbors(st, rows, j + 1, s)
         ELSE AddNeighbors([st EXCEPT !.out = Append(@, neighbor_snippet(rows[j], s)),
                                      !.seen = @ \cup {rows[j].id}],
                           rows, j + 1, s)

\* The locals of expand_with_neighbors before the loop (lines 120-121), with
\* the number of conn.execute calls made so far and the step that raised.
ExpandStart == [out |-> <<>>, seen |-> {}, executed |-> 0, failed_step |-> "none"]

\* Lines 128-192: the body of the loop for snippet s.
ExpandOne(st, s, left, right, db) ==
    IF s.id \in st.seen THEN st
    ELSE LET kept == [st EXCEPT !.out = Append(@, s), !.seen = @ \cup {s.id}]
             seqs == neighbor_seqs(s.seq, left, right)
         IN  IF s.doc = "None" \/ s.seq = NoneSeq THEN kept
             ELSE IF seqs = <<>> THEN kept
             ELSE IF kept.executed >= db.executes
                  THEN [kept EXCEPT !.failed_step = "execute"]
                  ELSE AddNeighbors([kept EXCEPT !.executed = @ + 1],
                                    SelectNeighbors(s.doc, seqs), 1, s)

\* Lines 127-192: the loop over the snippets; an exception ends it.
RECURSIVE CollectLoop(_, _, _, _, _, _)
CollectLoop(st, snippets, i, left, right, db) ==
    IF i > Len(snippets) \/ st.failed_step # "none" THEN st
    ELSE CollectLoop(ExpandOne(st, snippets[i], left, right, db),
                     snippets, i + 1, left, right, db)

\* The key of line 195 and tuple.__lt__ on two keys. Comparing None with a
\* string raises TypeError; two None keys are equal and compare nothing else.
KeysComparable(a, b) == (a.doc = "None") = (b.doc = "None")
KeyLess(a, b) ==
    IF a.doc = "None" THEN FALSE
    ELSE \/ DocRank(a.doc) < DocRank(b.doc)
         \/ a.doc = b.doc /\ a.seq < b.seq

\* list.sort raises as soon as it compares two keys that are not
\* comparable, and ordering the list needs such a comparison whenever the
\* list holds one pair of them.
SortRaises(out) ==
    \E i, j \in DOMAIN out : ~KeysComparable(out[i], out[j])

\* Line 195: list.sort is stable.
RECURSIVE InsertSorted(_, _)
InsertSorted(sorted, x) ==
    IF sorted = <<>> THEN <<x>>
    ELSE IF KeyLess(x, sorted[Len(sorted)])
         THEN Append(InsertSorted(SubSeq(sorted, 1, Len(sorted) - 1), x),
                     sorted[Len(sorted)])
         ELSE Append(sorted, x)

RECURSIVE SortByDocSeq(_)
SortByDocSeq(out) ==
    IF out = <<>> THEN <<>>
    ELSE InsertSorted(SortByDocSeq(SubSeq(out, 1, Len(out) - 1)), out[Len(out)])

\* Lines 198-208: the greedy trim by cumulative text length.
RECURSIVE TrimLoop(_, _, _, _, _)
TrimLoop(out, i, trimmed, total_chars, max_chars) ==
    IF i > Len(out) THEN trimmed
    ELSE IF total_chars + Len(out[i].text) > max_chars THEN trimmed
    ELSE TrimLoop(out, i + 1, Append(trimmed, out[i]),
                  total_chars + Len(out[i].text), max_chars)

ExpandReturn(value, failed_step) == [value |-> value, failed_step |-> failed_step]

\* An except clause that returns what was collected before the exception.
ExpandFallbackPartial(snippets, out, failed_step) ==
    ExpandReturn(out, failed_step)

\* Lines 213-216: the except clause.
ExpandFallback(snippets, out, failed_step) ==
    ExpandReturn(snippets, failed_step)

\* Lines 100-216.
expand_with_neighbors(snippets, left, right, max_chars, db) ==
    IF snippets = <<>> THEN ExpandReturn(snippets, "none")
    ELSE IF db.begin = "raises" THEN ExpandFallback(snippets, <<>>, "begin")
    ELSE LET st == CollectLoop(ExpandStart, snippets, 1, left, right, db)
         IN  IF st.failed_step # "none"
             THEN ExpandFallback(snippets, st.out, st.failed_step)
             ELSE IF SortRaises(st.out)
                  THEN ExpandFallback(snippets, st.out, "sort")
                  ELSE ExpandReturn(TrimLoop(SortByDocSeq(st.out), 1, <<>>, 0, max_chars),
                                    "none")

\* The character budgets of the calls: tight, middling, and the default
\* one that never trims these chunks.
ExpandBudgets == {5, 10, MaxChars}

ExIdle ==
    /\ ex_called = FALSE
    /\ ex_snippets = <<>>
    /\ ex_left = 0
    /\ ex_right = 0
    /\ ex_max_chars = 0
    /\ ex_db = [begin |-> "ok", executes |-> 0]
    /\ ex_failed_step = "none"
    /\ ex_result = <<>>

\* One call expand_with_neighbors(snippets, left, right, max_chars).
ExpandWithNeighborsCall ==
    /\ ~ex_called
    /\ \E snippets \in SeqUpTo(HydratedSnippets, MaxExpandLen),
          left \in 0..MaxWindow, right \in 0..MaxWindow,
          max_chars \in ExpandBudgets, db \in DbBehaviours :
        LET r == expand_with_neighbors(snippets, left, right, max_chars, db)
        IN  /\ ex_called' = TRUE
            /\ ex_snippets' = snippets
            /\ ex_left' = left
            /\ ex_right' = right
            /\ ex_max_chars' = max_chars
            /\ ex_db' = db
            /\ ex_failed_step' = r.failed_step
            /\ ex_result' = r.value

(***************************************************************************)
(* Grounder: gcp/search.py, google_ground                                  *)
(***************************************************************************)

\* Most items in one search response, and largest max_results.
MaxGoogleItems == 3
MaxGoogleResults == 3

\* One item of the response's "items". A key that is missing reads as the
\* empty string (lines 53-55).
GoogleItems ==
    [title : {<<>>, <<"t">>}, link : {<<"u">>}, snippet : {<<>>, Rep("y", 10)}]

\* Exceptions of the requests library: subclasses of RequestException.
RequestExceptions == {"HTTPError", "ConnectionError", "Timeout"}

\* What lines 43-47 do: requests.get raises (connection, timeout),
\* raise_for_status raises (HTTP error), response.json() raises, or the
\* response carries a list of items.
HttpOutcomes ==
    {[kind |-> e, items |-> <<>>] : e \in RequestExceptions \cup {"ValueError"}}
        \cup {[kind |-> "ok", items |-> items] :
                 items \in SeqUpTo(GoogleItems, MaxGoogleItems)}

\* Lines 50-60: the loop over items[:max_results].
RECURSIVE FormatResults(_, _, _)
FormatResults(items, i, results) ==
    IF i > Len(items) THEN results
    ELSE LET result == [title |-> items[i].title, link |-> items[i].link,
                        snippet |-> items[i].snippet]
         IN  IF result.title # <<>> /\ result.snippet # <<>>
             THEN FormatResults(items, i + 1, Append(results, result))
             ELSE FormatResults(items, i + 1, results)

\* The body of the try block with the test of line 59 left out.
google_ground_unfiltered(max_results, http) ==
    IF ~Truthy(google_search_api_key) \/ ~Truthy(google_search_cx)
    THEN Returned(<<>>)
    ELSE IF http.kind # "ok" THEN Raised(http.kind)
    ELSE Returned(Take(http.items, max_results))

\* Lines 24-63: the body of the try block.
google_ground_try(max_results, http) ==
    IF ~Truthy(google_search_api_key) \/ ~Truthy(google_search_cx)
    THEN Returned(<<>>)
    ELSE IF http.kind # "ok" THEN Raised(http.kind)
    ELSE Returned(FormatResults(Take(http.items, max_results), 1, <<>>))

\* Lines 12-73: each of the three except clauses returns [].
google_ground(max_results, http) ==
    LET body == google_ground_try(max_results, http)
    IN  IF body.raised = "none" THEN body
        ELSE IF body.raised \in RequestExceptions THEN Returned(<<>>)
        ELSE Returned(<<>>)

GgIdle ==
    /\ gg_called = FALSE
    /\ gg_max_results = 0
    /\ gg_http = [kind |-> "ok", items |-> <<>>]
    /\ gg_raised = "none"
    /\ gg_result = <<>>

\* The process starts with any search configuration.
GgInit ==
    /\ GgIdle
    /\ google_search_api_key \in KeyValues
    /\ google_search_cx \in KeyValues
    /\ grounding_sim_threshold = 0
    /\ voyage_api_key = "None"
    /\ cohere_api_key = "None"

\* One call google_ground(query, max_results).
GoogleGroundCall ==
    /\ ~gg_called
    /\ \E max_results \in 0..MaxGoogleResults, http \in HttpOutcomes :
        LET r == google_ground(max_results, http)
        IN  /\ gg_called' = TRUE
            /\ gg_max_results' = max_results
            /\ gg_http' = http
            /\ gg_raised' = r.raised
            /\ gg_result' = r.value
    /\ UNCHANGED settingsVars

(***************************************************************************)
(* Generator: rag/generator.py, answer                                     *)
(***************************************************************************)

\* A string built by an f-string: the literal text and the value put into
\* it ("" when the string is a plain one).
Text(literal) == [text |-> literal, detail |-> ""]
Formatted(literal, detail) == [text |-> literal, detail |-> detail]

\* core/config.py lines 86-88.
is_vertex_chat_enabled ==
    use_vertex_chat /\ Truthy(gcp_project_id) /\ Truthy(google_application_credentials)

\* What vertex_chat does when called: the Google libraries are missing,
\* the call raises, or it returns a text.
VertexOutcomes ==
    {[kind |-> "ImportError", text |-> ""], [kind |-> "RuntimeError", text |-> ""]}
        \cup {[kind |-> "ok", text |-> t] : t \in {"Vertex says [#1]", ""}}

\* What llm().chat.completions.create does when called: it raises (no API
\* key, network, quota), or it returns a message whose content is a text
\* or None.
OpenAIOutcomes ==
    {[kind |-> "APIError", text |-> ""]}
        \cup {[kind |-> "ok", text |-> t] : t \in {"OpenAI says [#1]", "", "None"}}

AnswerReturn(raised, value, vertex_called, openai_called) ==
    [raised |-> raised, value |-> value,
     vertex_called |-> vertex_called, openai_called |-> openai_called]

\* The except clause of lines 60-62 re-raising instead of returning.
OpenAIChatReraising(openai_outcome, vertex_called) ==
    IF openai_outcome.kind = "ok"
    THEN AnswerReturn("none",
                      Text(IF openai_outcome.text = "None" THEN "" ELSE openai_outcome.text),
                      vertex_called, TRUE)
    ELSE AnswerReturn(openai_outcome.kind, Text(""), vertex_called, TRUE)

\* Lines 46-62: the OpenAI call and its except clause.
OpenAIChat(openai_outcome, vertex_called) ==
    IF openai_outcome.kind = "ok"
    THEN AnswerReturn("none",
                      Text(IF openai_outcome.text = "None" THEN "" ELSE openai_outcome.text),
                      vertex_called, TRUE)
    ELSE AnswerReturn("none",
                      Formatted("I apologize, but I encountered an error while generating the response: ",
                                openai_outcome.kind),
                      vertex_called, TRUE)

\* Lines 20-62. The question and the context pack are only passed on to
\* the provider.
answer(vertex_outcome, openai_outcome) ==
    IF is_vertex_chat_enabled
    THEN IF vertex_outcome.kind = "ok"
         THEN AnswerReturn("none", Text(vertex_outcome.text), TRUE, FALSE)
         ELSE OpenAIChat(openai_outcome, TRUE)
    ELSE OpenAIChat(openai_outcome, FALSE)

ChatIdle ==
    /\ use_vertex_chat = FALSE
    /\ gcp_project_id = "None"
    /\ google_application_credentials = "None"

AnIdle ==
    /\ an_called = FALSE
    /\ an_vertex_outcome = [kind |-> "ok", text |-> ""]
    /\ an_openai_outcome = [kind |-> "ok", text |-> ""]
    /\ an_vertex_called = FALSE
    /\ an_openai_called = FALSE
    /\ an_raised = "none"
    /\ an_result = Text("")

\* The process starts with any chat configuration.
AnInit ==
    /\ AnIdle
    /\ use_vertex_chat \in BOOLEAN
    /\ gcp_project_id \in KeyValues
    /\ google_application_credentials \in KeyValues

\* One call answer(question, context_pack).
AnswerCall ==
    /\ ~an_called
    /\ \E vertex_outcome \in VertexOutcomes, openai_outcome \in OpenAIOutcomes :
        LET r == answer(vertex_outcome, openai_outcome)
        IN  /\ an_called' = TRUE
            /\ an_vertex_outcome' = vertex_outcome
            /\ an_openai_outcome' = openai_outcome
            /\ an_vertex_called' = r.vertex_called
            /\ an_openai_called' = r.openai_called
            /\ an_raised' = r.raised
            /\ an_result' = r.value
    /\ UNCHANGED chatVars

(***************************************************************************)
(* Query surfaces: apps/api.py, query and apps/cli.py, cmd_ask             *)
(*                                                                         *)
(* One query is a run of the statements of the surface, one action per     *)
(* pipeline stage; q_pc is the stage the surface has reached. Both         *)
(* surfaces import is_grounding_enabled, grounding_threshold and           *)
(* max_google_results from core/config.py, which defines none of them;     *)
(* they are modelled as the configuration reads the design document        *)
(* describes.                                                              *)
(***************************************************************************)

\* Largest requested k, and most vectors the index holds.
MaxQueryK == 2
MaxIndexed == 3

\* The default max_chars of build_combined_context, also the max_chars the
\* API passes to expand_with_neighbors; the default max_results of
\* google_ground.
DefaultMaxChars == 12000
DefaultMaxResults == 3

\* An availability test that looks at the key only and never asks the server.
is_available_configured(server) == Truthy(typesense_api_key)

\* search/typesense_client.py lines 144-154: no key, or get_client() or
\* collections.retrieve() raising, make it False.
is_available(server) == Truthy(typesense_api_key) /\ server = "up"

\* rag/reranker.py lines 106-108.
is_rerank_available == Truthy(voyage_api_key) \/ Truthy(cohere_api_key)

is_grounding_enabled == use_google_grounding
max_google_results == DefaultMaxResults

\* The vectors of the index in the order of their similarity to the query
\* vector: the first n of a ranking of the stored chunks, one ranking with
\* a strong best match and one with weak matches only.
StrongRanking ==
    << [id |-> "d1", score |-> 3], [id |-> "d0", score |-> 2],
       [id |-> "d2", score |-> 1], [id |-> "e0", score |-> 0] >>
WeakRanking == << [id |-> "e0", score |-> 1], [id |-> "d2", score |-> 0] >>
PineconeIndexes ==
    {Take(r, n) : n \in 0..MaxIndexed, r \in {StrongRanking, WeakRanking}}

\* What idx.query does: it raises, or it answers with the top_k best matches.
PineconeOutcomes ==
    {[kind |-> "PineconeException", index |-> <<>>]}
        \cup {[kind |-> "ok", index |-> index] : index \in PineconeIndexes}

\* rag/retriever.py lines 18-23: the running maximum, started at 0.0.
RECURSIVE BestScoreLoop(_, _, _)
BestScoreLoop(matches, i, best_score) ==
    IF i > Len(matches) THEN best_score
    ELSE BestScoreLoop(matches, i + 1,
                       IF matches[i].score > best_score THEN matches[i].score
                       ELSE best_score)

SearchReturn(raised, matches, best_score) ==
    [raised |-> raised, matches |-> matches, best_score |-> best_score]

\* rag/retriever.py lines 7-32.
vector_search(top_k, pinecone) ==
    IF pinecone.kind # "ok" THEN SearchReturn(pinecone.kind, <<>>, 0)
    ELSE LET matches == Take(pinecone.index, top_k)
         IN  SearchReturn("none", matches, BestScoreLoop(matches, 1, 0))

\* search/hybrid.py line 104: the parameters of hybrid_search; apps/api.py
\* line 139 and apps/cli.py line 43: the keyword arguments of the call
\* hybrid_search(q, vec, top_k=k).
HybridSearchParameters == {"query", "query_vec", "k"}
HybridSearchKeywords == {"top_k"}

\* Python binds the arguments of a call before it enters the body; a keyword
\* that names no parameter raises TypeError.
Binds(keywords, parameters) == keywords \subseteq parameters

\* search/hybrid.py lines 104-129, entered only when the call binds, and
\* the unpacking of its result into (matches, best_score). Without a
\* licence the function returns the pair vector_search returns. With one it
\* hands that pair to hybrid_merge as vector_results: the first vector turn
\* reads ['id'] of the match list and raises TypeError, unless the merged
\* list is already full after the first keyword turn, and then the function
\* returns a one-item list, which the unpacking rejects with ValueError.
hybrid_search_body(k, licensed, keyword_results, pinecone) ==
    IF ~licensed THEN vector_search(k, pinecone)
    ELSE LET v == vector_search(k * 2, pinecone)
         IN  IF v.raised # "none" THEN v
             ELSE IF keyword_results # <<>> /\ k = 1
                  THEN SearchReturn("ValueError", <<>>, 0)
                  ELSE SearchReturn("TypeError", <<>>, 0)

\* The statement matches, best_score = hybrid_search(q, vec, top_k=k) of
\* the two surfaces.
hybrid_search_call(k, licensed, keyword_results, pinecone) ==
    IF ~Binds(HybridSearchKeywords, HybridSearchParameters)
    THEN SearchReturn("TypeError", <<>>, 0)
    ELSE hybrid_search_body(k, licensed, keyword_results, pinecone)

\* What keyword_search returns to hybrid_search.
KeywordHits == {<<>>, <<[id |-> "d1", score |-> 1]>>}

\* rag/context_builder.py lines 7-23 on matches whose ids the store holds:
\* each match keeps its score and gets the row's text, document and seq.
hydrate_matches(matches) ==
    [i \in DOMAIN matches |-> [Hydrated(matches[i].id) EXCEPT !.score = matches[i].score]]

\* The snippet as build_context formats it: str(doc) is the characters of
\* the document identifier.
ContextSnippet(s) == [s EXCEPT !.doc = <<s.doc>>]

\* str.strip() removes leading and trailing whitespace.
Whitespace == {" ", "\n", "\t"}
Strip(str) ==
    LET inked == {i \in DOMAIN str : str[i] \notin Whitespace}
    IN  IF inked = {} THEN <<>>
        ELSE SubSeq(str, CHOOSE i \in inked : \A j \in inked : i <= j,
                         CHOOSE i \in inked : \A j \in inked : i >= j)

\* The answers of the surfaces that are not the generator's.
NotEnoughContext(surface) ==
    IF surface = "query"
    THEN Text("I don't have enough context to answer this question. Please make sure documents have been ingested and indexed.")
    ELSE Text("I don't have enough context to answer this question. Please make sure you have ingested and indexed some documents first.")

QueryReturn(ans, search_type, sources_count) ==
    [answer |-> ans, search_type |-> search_type, sources_count |-> sources_count]
NoResponse == QueryReturn(Text(""), <<>>, 0)

\* An except clause that answers with the label and the sources counted so
\* far.
ErrorResponseKeepingLabel(e, search_type, sources_count) ==
    QueryReturn(Formatted("Sorry, I encountered an error: ", e), search_type, sources_count)

\* apps/api.py lines 194-203: the except clause of query.
ErrorResponse(e, search_type, sources_count) ==
    QueryReturn(Formatted("Sorry, I encountered an error: ", e), <<"error">>, 0)

QcfgIdle ==
    /\ typesense_api_key = "None"
    /\ use_google_grounding = FALSE

QIdle ==
    /\ q_surface = "none"
    /\ q_pc = "idle"
    /\ q_k = 1
    /\ q_hybrid = FALSE
    /\ q_rerank = FALSE
    /\ q_typesense = "unasked"
    /\ q_matches = <<>>
    /\ q_best_score = 0
    /\ q_search_type = <<>>
    /\ q_snippets = <<>>
    /\ q_rescored_by = "none"
    /\ q_external_snippets = <<>>
    /\ q_pack = <<>>
    /\ q_stages = <<>>
    /\ q_failed_stage = "none"
    /\ q_exception = "none"
    /\ q_raised = "none"
    /\ q_response = NoResponse

\* The process starts with a configuration: each key unset or set, grounding
\* switched on or off, the similarity threshold between the weak and the
\* strong best scores of the index.
QInit ==
    /\ QIdle
    /\ typesense_api_key \in {"None", "key"}
    /\ use_google_grounding \in BOOLEAN
    /\ google_search_api_key \in {"None", "key"}
    /\ google_search_cx = "key"
    /\ grounding_sim_threshold = 2
    /\ voyage_api_key \in {"None", "key"}
    /\ cohere_api_key \in {"None", "key"}

\* The statement that raised ends the query: query answers from its except
\* clause, cmd_ask lets the exception through.
Fail(stage, e) ==
    /\ q_pc' = "done"
    /\ q_stages' = Append(q_stages, stage)
    /\ q_failed_stage' = stage
    /\ q_exception' = e
    /\ IF q_surface = "query"
       THEN /\ q_raised' = "none"
            /\ q_response' = ErrorResponse(e, q_search_type,
                                           Len(q_snippets) + Len(q_external_snippets))
       ELSE /\ q_raised' = e
            /\ q_response' = NoResponse

\* apps/api.py lines 129-134, apps/cli.py lines 32-36: a request arrives.
QueryStart ==
    /\ q_pc = "idle"
    /\ \E surface \in {"query", "cmd_ask"}, k \in 1..MaxQueryK,
          hybrid \in BOOLEAN, rerank_flag \in BOOLEAN :
        /\ q_surface' = surface
        /\ q_k' = k
        /\ q_hybrid' = hybrid
        /\ q_rerank' = rerank_flag
    /\ q_pc' = "embed"
    /\ UNCHANGED <<q_typesense, q_matches, q_best_score, q_search_type, q_snippets,
                   q_rescored_by, q_external_snippets, q_pack, q_stages,
                   q_failed_stage, q_exception, q_raised, q_response>>
    /\ UNCHANGED <<settingsVars, chatVars, qcfgVars>>

\* apps/api.py line 134, apps/cli.py line 38: vec = embed_texts([q])[0].
\* embed_texts returns the vector or raises EmbeddingServiceError
\* (index/embedder.py lines 55-73).
EmbedQuery ==
    /\ q_pc = "embed"
    /\ \E outcome \in {"ok", "EmbeddingServiceError"} :
        IF outcome = "ok"
        THEN /\ q_pc' = "search"
             /\ q_stages' = Append(q_stages, "embed_texts")
             /\ UNCHANGED <<q_failed_stage, q_exception, q_raised, q_response>>
        ELSE Fail("embed_texts", outcome)
    /\ UNCHANGED <<q_surface, q_k, q_hybrid, q_rerank, q_typesense, q_matches,
                   q_best_score, q_search_type, q_snippets, q_rescored_by,
                   q_external_snippets, q_pack>>
    /\ UNCHANGED <<settingsVars, chatVars, qcfgVars>>

\* The outcome r of the search statement: its exception ends the query,
\* else the locals matches, best_score and search_type are bound.
SearchDone(stage, r, label) ==
    IF r.raised # "none"
    THEN /\ Fail(stage, r.raised)
         /\ UNCHANGED <<q_matches, q_best_score, q_search_type>>
    ELSE /\ q_matches' = r.matches
         /\ q_best_score' = r.best_score
         /\ q_search_type' = <<label>>
         /\ q_pc' = "hydrate"
         /\ q_stages' = Append(q_stages, stage)
         /\ UNCHANGED <<q_failed_stage, q_exception, q_raised, q_response>>

\* apps/api.py lines 137-145, apps/cli.py lines 41-49. typesense_available()
\* is asked only when the request has hybrid set.
SearchQuery ==
    /\ q_pc = "search"
    /\ \E server \in {"up", "down"}, pinecone \in PineconeOutcomes,
          licensed \in BOOLEAN, keyword_results \in KeywordHits :
        /\ q_typesense' = IF q_hybrid THEN server ELSE "unasked"
        /\ IF q_hybrid /\ is_available(server)
           THEN SearchDone("hybrid_search",
                           hybrid_search_call(q_k, licensed, keyword_results, pinecone),
                           "hybrid")
           ELSE LET search_k == IF q_rerank THEN q_k * 2 ELSE q_k
                IN  SearchDone("vector_search", vector_search(search_k, pinecone), "vector")
    /\ UNCHANGED <<q_surface, q_k, q_hybrid, q_rerank, q_snippets, q_rescored_by,
                   q_external_snippets, q_pack>>
    /\ UNCHANGED <<settingsVars, chatVars, qcfgVars>>

\* apps/api.py line 148, apps/cli.py line 52: snippets = hydrate_matches(matches).
\* The store is read only when there is a match, and the read may raise.
HydrateQuery ==
    /\ q_pc = "hydrate"
    /\ \E store \in {"ok", "OperationalError"} :
        IF q_matches # <<>> /\ store # "ok"
        THEN /\ Fail("hydrate_matches", store)
             /\ UNCHANGED q_snippets
        ELSE /\ q_snippets' = hydrate_matches(q_matches)
             /\ q_pc' = "rerank"
             /\ q_stages' = Append(q_stages, "hydrate_matches")
             /\ UNCHANGED <<q_failed_stage, q_exception, q_raised, q_response>>
    /\ UNCHANGED <<q_surface, q_k, q_hybrid, q_rerank, q_typesense, q_matches,
                   q_best_score, q_search_type, q_rescored_by,
                   q_external_snippets, q_pack>>
    /\ UNCHANGED <<settingsVars, chatVars, qcfgVars>>

\* What a rerank provider does during a query: the call raises, or it
\* answers with the documents in reverse order.
ReverseOrder(n) == [i \in 1..n |-> n + 1 - i]
QueryRerankOutcomes(n) ==
    {[kind |-> "Exception", results |-> <<>>],
     [kind |-> "ok", results |-> Answer(ReverseOrder(n))]}

\* The provider whose scores a reranked list carries.
RescoredBy(snippets) ==
    IF snippets # <<>> /\ "reranker" \in DOMAIN snippets[1]
    THEN snippets[1].reranker
    ELSE "none"

\* apps/api.py lines 151-154, apps/cli.py lines 55-58. In cmd_ask the name
\* rerank is the bool parameter of line 32, so the call rerank(q, snippets)
\* raises TypeError.
RerankQuery ==
    /\ q_pc = "rerank"
    /\ IF q_rerank /\ is_rerank_available /\ q_snippets # <<>>
       THEN IF q_surface = "cmd_ask"
            THEN /\ Fail("rerank", "TypeError")
                 /\ UNCHANGED <<q_snippets, q_rescored_by, q_search_type>>
            ELSE \E voyage_outcome \in QueryRerankOutcomes(Len(q_snippets)),
                    cohere_outcome \in QueryRerankOutcomes(Len(q_snippets)) :
                    LET r == rerank(q_snippets, voyage_outcome, cohere_outcome)
                    IN  /\ q_snippets' = Take(r.value, q_k)
                        /\ q_rescored_by' = RescoredBy(r.value)
                        /\ q_search_type' = Append(q_search_type, "+rerank")
                        /\ q_pc' = "expand"
                        /\ q_stages' = Append(q_stages, "rerank")
                        /\ UNCHANGED <<q_failed_stage, q_exception, q_raised, q_response>>
       ELSE /\ q_pc' = IF q_surface = "query" THEN "expand" ELSE "ground"
            /\ UNCHANGED <<q_snippets, q_rescored_by, q_search_type, q_stages,
                           q_failed_stage, q_exception, q_raised, q_response>>
    /\ UNCHANGED <<q_surface, q_k, q_hybrid, q_rerank, q_typesense, q_matches,
                   q_best_score, q_external_snippets, q_pack>>
    /\ UNCHANGED <<settingsVars, chatVars, qcfgVars>>

\* What the chunk store does during the expansion of a query: engine.begin()
\* raises, the first query raises, or every query succeeds.
QueryDbBehaviours(snippets) ==
    {[begin |-> "raises", executes |-> 0], [begin |-> "ok", executes |-> 0],
     [begin |-> "ok", executes |-> Len(snippets)]}

\* apps/api.py lines 157-158; cmd_ask has no such statement.
ExpandQuery ==
    /\ q_pc = "expand"
    /\ \E db \in QueryDbBehaviours(q_snippets) :
        q_snippets' = expand_with_neighbors(q_snippets, 1, 1, DefaultMaxChars, db).value
    /\ q_pc' = "ground"
    /\ q_stages' = Append(q_stages, "expand_with_neighbors")
    /\ UNCHANGED <<q_surface, q_k, q_hybrid, q_rerank, q_typesense, q_matches,
                   q_best_score, q_search_type, q_rescored_by, q_external_snippets,
                   q_pack, q_failed_stage, q_exception, q_raised, q_response>>
    /\ UNCHANGED <<settingsVars, chatVars, qcfgVars>>

\* What the web search does during a query: it times out, it finds
\* nothing, or it finds one complete result.
QueryHttpOutcomes ==
    {[kind |-> "Timeout", items |-> <<>>], [kind |-> "ok", items |-> <<>>],
     [kind |-> "ok",
      items |-> <<[title |-> <<"t">>, link |-> <<"u">>, snippet |-> Rep("y", 10)]>>]}

\* apps/api.py lines 161-172, apps/cli.py lines 61-73.
GroundQuery ==
    /\ q_pc = "ground"
    /\ IF is_grounding_enabled /\ should_use_grounding(q_best_score, Len(q_snippets), q_k)
       THEN \E http \in QueryHttpOutcomes :
                LET r == google_ground(max_google_results, http)
                IN  IF r.raised # "none"
                    THEN /\ q_external_snippets' = <<>>
                         /\ UNCHANGED q_search_type
                         /\ q_stages' = Append(q_stages, "google_ground")
                    ELSE /\ q_external_snippets' = r.value
                         /\ q_search_type' = IF r.value # <<>>
                                             THEN Append(q_search_type, "+grounding")
                                             ELSE q_search_type
                         /\ q_stages' = Append(q_stages, "google_ground")
       ELSE UNCHANGED <<q_external_snippets, q_search_type, q_stages>>
    /\ q_pc' = "build"
    /\ UNCHANGED <<q_surface, q_k, q_hybrid, q_rerank, q_typesense, q_matches,
                   q_best_score, q_snippets, q_rescored_by, q_pack,
                   q_failed_stage, q_exception, q_raised, q_response>>
    /\ UNCHANGED <<settingsVars, chatVars, qcfgVars>>

\* apps/api.py lines 175-176, apps/cli.py line 76.
BuildQuery ==
    /\ q_pc = "build"
    /\ LET r == build_combined_context([i \in DOMAIN q_snippets |-> ContextSnippet(q_snippets[i])],
                                       q_external_snippets, DefaultMaxChars)
       IN  IF r.raised # "none"
           THEN /\ Fail("build_combined_context", r.raised)
                /\ UNCHANGED q_pack
           ELSE /\ q_pack' = r.value
                /\ q_pc' = "generate"
                /\ q_stages' = Append(q_stages, "build_combined_context")
                /\ UNCHANGED <<q_failed_stage, q_exception, q_raised, q_response>>
    /\ UNCHANGED <<q_surface, q_k, q_hybrid, q_rerank, q_typesense, q_matches,
                   q_best_score, q_search_type, q_snippets, q_rescored_by,
                   q_external_snippets>>
    /\ UNCHANGED <<settingsVars, chatVars, qcfgVars>>

\* The test of apps/api.py line 179 and apps/cli.py line 79 answering yes
\* for every pack.
HasContentAlways(pack) == TRUE

\* apps/api.py line 179, apps/cli.py line 79: if pack.strip().
HasContent(pack) == Strip(pack) # <<>>

\* apps/api.py lines 179-192, apps/cli.py lines 79-92: the answer is
\* generated or is the fixed message, and the surface returns or prints it.
GenerateQuery ==
    /\ q_pc = "generate"
    /\ IF HasContent(q_pack)
       THEN \E vertex_outcome \in VertexOutcomes, openai_outcome \in OpenAIOutcomes :
                LET r == answer(vertex_outcome, openai_outcome)
                IN  IF r.raised # "none"
                    THEN Fail("answer", r.raised)
                    ELSE /\ q_response' = QueryReturn(r.value, q_search_type,
                                              Len(q_snippets) + Len(q_external_snippets))
                         /\ q_stages' = Append(q_stages, "answer")
                         /\ q_pc' = "done"
                         /\ UNCHANGED <<q_failed_stage, q_exception, q_raised>>
       ELSE /\ q_response' = QueryReturn(NotEnoughContext(q_surface), q_search_type,
                                  IF q_surface = "query"
                                  THEN Len(q_snippets) + Len(q_external_snippets)
                                  ELSE 0)
            /\ q_pc' = "done"
            /\ UNCHANGED <<q_stages, q_failed_stage, q_exception, q_raised>>
    /\ UNCHANGED <<q_surface, q_k, q_hybrid, q_rerank, q_typesense, q_matches,
                   q_best_score, q_search_type, q_snippets, q_rescored_by,
                   q_external_snippets, q_pack>>
    /\ UNCHANGED <<settingsVars, chatVars, qcfgVars>>

(***************************************************************************)
(* Vector Retriever: rag/retriever.py as a component of its own            *)
(***************************************************************************)

MaxMatches == 3
MaxSearchScore == 1
MaxTopK == 3

\* The identifiers of the matches of an index, in the order the index
\* returns them.
MatchIds == <<"d0", "d1", "d2", "e0", "u">>

\* The index is created with metric="dotproduct" (index/pinecone_client.py
\* line 14): the score of a match is any number, negative ones included,
\* and the list comes in whatever order the index returns it.
BackendMatches ==
    UNION {{[i \in 1..n |-> [id |-> MatchIds[i], score |-> scores[i]]] :
                scores \in [1..n -> (0 - MaxSearchScore)..MaxSearchScore]} :
           n \in 0..MaxMatches}

\* What get_index() and idx.query do during a call: one of them raises, or
\* the index answers with its matches.
BackendOutcomes ==
    {[kind |-> "PineconeException", index |-> <<>>]}
        \cup {[kind |-> "ok", index |-> index] : index \in BackendMatches}

\* The query vectors of a call: the empty vector and a vector with entries.
QueryVectors == {<<>>, <<1>>}

\* rag/retriever.py lines 14-16: no statement before idx.query looks at
\* query_vec or top_k, so the index is queried for every argument.
IndexQueried(query_vec, top_k) == TRUE

VsIdle ==
    /\ vs_called = FALSE
    /\ vs_query_vec = <<>>
    /\ vs_top_k = 1
    /\ vs_pinecone = [kind |-> "ok", index |-> <<>>]
    /\ vs_queried = FALSE
    /\ vs_raised = "none"
    /\ vs_matches = <<>>
    /\ vs_best_score = 0

\* One call vector_search(query_vec, top_k=top_k).
VectorSearchCall ==
    /\ ~vs_called
    /\ \E query_vec \in QueryVectors, top_k \in (0 - 1)..MaxTopK,
          pinecone \in BackendOutcomes :
        LET r == vector_search(top_k, pinecone)
        IN  /\ vs_query_vec' = query_vec
            /\ vs_top_k' = top_k
            /\ vs_pinecone' = pinecone
            /\ vs_queried' = IndexQueried(query_vec, top_k)
            /\ vs_raised' = r.raised
            /\ vs_matches' = r.matches
            /\ vs_best_score' = r.best_score
    /\ vs_called' = TRUE

(***************************************************************************)
(* Circuit Breaker: core/resilience.py                                     *)
(***************************************************************************)

MaxThreshold == 2
MaxRecovery == 2
MaxTime == 4
MaxCalls == 4

\* last_failure_time = None.
NoTime == -1

\* The exception classes a breaker is configured with: Exception, the
\* default of CircuitBreakerConfig (line 25), and EmbeddingServiceError, the
\* one of embedding_circuit_breaker (lines 165-169).
ExpectedExceptions == {"Exception", "EmbeddingServiceError"}

\* What the wrapped function does when it is invoked: it returns, it raises
\* the service error, or it raises another exception.
FuncOutcomes == {"ok", "EmbeddingServiceError", "ValueError"}

\* The number of positional arguments the constructor of an exception class
\* takes: Exception takes any number, EmbeddingServiceError.__init__(self,
\* service, original_error) takes exactly two (lines 83-88).
Constructs(exception, nargs) ==
    IF exception = "EmbeddingServiceError" THEN nargs = 2 ELSE TRUE

\* The exception that the statement raise exception(args) raises: an
\* instance of the class, or the TypeError of a constructor call that does
\* not bind.
RaiseNew(exception, nargs) ==
    IF Constructs(exception, nargs) THEN exception ELSE "TypeError"

\* except expected_exception catches the instances of the class and of its
\* subclasses; every exception here is an instance of Exception.
Catches(expected_exception, raised) ==
    expected_exception = "Exception" \/ raised = expected_exception

Breaker(state, failure_count, last_failure_time) ==
    [state |-> state, failure_count |-> failure_count,
     last_failure_time |-> last_failure_time]

\* A reset test that never lets a trial through.
should_attempt_reset_never(last_failure_time, now, recovery_timeout) == FALSE

\* Lines 56-60.
should_attempt_reset(last_failure_time, now, recovery_timeout) ==
    IF last_failure_time = NoTime THEN TRUE
    ELSE now - last_failure_time >= recovery_timeout

\* Lines 62-66.
on_success(b) == Breaker("closed", 0, NoTime)

\* Lines 68-75.
on_failure(b, now, failure_threshold) ==
    Breaker(IF b.failure_count + 1 >= failure_threshold THEN "open" ELSE b.state,
            b.failure_count + 1, now)

WrapperReturn(b, invoked, raised) ==
    [breaker |-> b, invoked |-> invoked, raised |-> raised]

\* Lines 46-52: the wrapped function is invoked.
Invoke(b, outcome, now, failure_threshold, expected_exception) ==
    IF outcome = "ok" THEN WrapperReturn(on_success(b), TRUE, "none")
    ELSE IF Catches(expected_exception, outcome)
         THEN WrapperReturn(on_failure(b, now, failure_threshold), TRUE, outcome)
         ELSE WrapperReturn(b, TRUE, outcome)

\* Lines 39-52: one call through the wrapper.
wrapper(b, outcome, now, failure_threshold, recovery_timeout, expected_exception) ==
    IF b.state = "open"
    THEN IF should_attempt_reset(b.last_failure_time, now, recovery_timeout)
         THEN Invoke([b EXCEPT !.state = "half-open"], outcome, now,
                     failure_threshold, expected_exception)
         ELSE WrapperReturn(b, FALSE, RaiseNew(expected_exception, 1))
    ELSE Invoke(b, outcome, now, failure_threshold, expected_exception)

NoCall ==
    [made |-> FALSE, before |-> Breaker("closed", 0, NoTime), at |-> 0,
     outcome |-> "ok", invoked |-> FALSE, raised |-> "none"]

CbIdle ==
    /\ cb_failure_threshold = 1
    /\ cb_recovery_timeout = 1
    /\ cb_expected_exception = "Exception"
    /\ cb_failure_count = 0
    /\ cb_last_failure_time = NoTime
    /\ cb_state = "closed"
    /\ cb_now = 0
    /\ cb_calls = 0
    /\ cb_last = NoCall
    /\ cb_streak = 0

\* Lines 31-35: a breaker is constructed with its configuration.
CbInit ==
    /\ cb_failure_threshold \in 1..MaxThreshold
    /\ cb_recovery_timeout \in 1..MaxRecovery
    /\ cb_expected_exception \in ExpectedExceptions
    /\ cb_failure_count = 0
    /\ cb_last_failure_time = NoTime
    /\ cb_state = "closed"
    /\ cb_now = 0
    /\ cb_calls = 0
    /\ cb_last = NoCall
    /\ cb_streak = 0

\* Time passes between two calls.
Tick ==
    /\ cb_now < MaxTime
    /\ cb_now' = cb_now + 1
    /\ UNCHANGED <<cb_failure_threshold, cb_recovery_timeout, cb_expected_exception,
                   cb_failure_count, cb_last_failure_time, cb_state, cb_calls,
                   cb_last, cb_streak>>

\* One call of the decorated function.
WrapperCall ==
    /\ cb_calls < MaxCalls
    /\ \E outcome \in FuncOutcomes :
        LET b == Breaker(cb_state, cb_failure_count, cb_last_failure_time)
            r == wrapper(b, outcome, cb_now, cb_failure_threshold,
                         cb_recovery_timeout, cb_expected_exception)
        IN  /\ cb_state' = r.breaker.state
            /\ cb_failure_count' = r.breaker.failure_count
            /\ cb_last_failure_time' = r.breaker.last_failure_time
            /\ cb_last' = [made |-> TRUE, before |-> b, at |-> cb_now,
                           outcome |-> outcome, invoked |-> r.invoked,
                           raised |-> r.raised]
            /\ cb_streak' = IF ~r.invoked THEN cb_streak
                            ELSE IF outcome # "ok" /\ Catches(cb_expected_exception, outcome)
                                 THEN cb_streak + 1
                                 ELSE 0
    /\ cb_calls' = cb_calls + 1
    /\ UNCHANGED <<cb_failure_threshold, cb_recovery_timeout, cb_expected_exception,
                   cb_now>>

(***************************************************************************)
(* LRU cache: core/cache.py                                                *)
(***************************************************************************)

MaxCacheSize == 2
MaxCacheTime == 2
MaxCacheOps == 4

\* ttl = None.
NoTtl == -1

CacheKeys == {"a", "b", "c"}

\* The cache does not look at what it stores: one value stands for all.
CacheValues == {"v1"}

\* The ttl arguments of put: None, 0 and a positive number of seconds.
TtlArguments == {NoTtl, 0, 1}

\* Python's x or y on an optional number: None and 0 are falsy.
Or(x, y) == IF x = NoTtl \/ x = 0 THEN y ELSE x

CacheEntry(key, value, created_at, ttl) ==
    [key |-> key, value |-> value, created_at |-> created_at, ttl |-> ttl]

\* An expiry test for which no entry ever expires.
is_expired_never(entry, now) == FALSE

\* Lines 26-30.
is_expired(entry, now) ==
    IF entry.ttl = NoTtl THEN FALSE ELSE now - entry.created_at > entry.ttl

KeysOf(cache) == {cache[i].key : i \in DOMAIN cache}
EntryOf(cache, key) == cache[CHOOSE i \in DOMAIN cache : cache[i].key = key]

\* del self._cache[key]: the other entries keep their order.
Without(cache, key) == SelectSeq(cache, LAMBDA e : e.key # key)

CacheReturn(cache, result) == [cache |-> cache, result |-> result]

\* Lines 56-73.
get(cache, key, now) ==
    IF key \notin KeysOf(cache) THEN CacheReturn(cache, "None")
    ELSE LET entry == EntryOf(cache, key)
         IN  IF is_expired(entry, now)
             THEN CacheReturn(Without(cache, key), "None")
             ELSE CacheReturn(Append(Without(cache, key), entry), entry.value)

\* Lines 79-81: while len(self._cache) >= self.max_size, the first key of
\* the dictionary is deleted.
RECURSIVE EvictLoop(_, _)
EvictLoop(cache, max_size) ==
    IF Len(cache) >= max_size
    THEN EvictLoop(Tail(cache), max_size)
    ELSE cache

\* Lines 75-91. Assigning to a key that is present keeps its position, and
\* move_to_end then puts it last.
put(cache, key, value, ttl, now, max_size, default_ttl) ==
    LET kept == EvictLoop(cache, max_size)
        entry == CacheEntry(key, value, now, Or(ttl, default_ttl))
    IN  Append(Without(kept, key), entry)

\* Lines 93-99.
delete(cache, key) ==
    IF key \in KeysOf(cache) THEN CacheReturn(Without(cache, key), TRUE)
    ELSE CacheReturn(cache, FALSE)

\* Lines 128-142.
cleanup_expired(cache, now) ==
    LET live == SelectSeq(cache, LAMBDA e : ~is_expired(e, now))
    IN  CacheReturn(live, Len(cache) - Len(live))

NoOperation ==
    [op |-> "none", key |-> "None", result |-> "None", before |-> <<>>, at |-> 0,
     used |-> [key \in CacheKeys |-> 0]]

LcIdle ==
    /\ lc_max_size = 1
    /\ lc_default_ttl = NoTtl
    /\ lc_cache = <<>>
    /\ lc_now = 0
    /\ lc_ops = 0
    /\ lc_last = NoOperation
    /\ lc_used = [key \in CacheKeys |-> 0]

\* Lines 41-45: a cache is constructed with max_size >= 1 and a default ttl
\* that is None or a positive number of seconds.
LcInit ==
    /\ lc_max_size \in 1..MaxCacheSize
    /\ lc_default_ttl \in {NoTtl, 1}
    /\ lc_cache = <<>>
    /\ lc_now = 0
    /\ lc_ops = 0
    /\ lc_last = NoOperation
    /\ lc_used = [key \in CacheKeys |-> 0]

\* Time passes between two operations.
CacheTick ==
    /\ lc_now < MaxCacheTime
    /\ lc_now' = lc_now + 1
    /\ UNCHANGED <<lc_max_size, lc_default_ttl, lc_cache, lc_ops, lc_last, lc_used>>

Operation(op, key, result) ==
    [op |-> op, key |-> key, result |-> result, before |-> lc_cache, at |-> lc_now,
     used |-> lc_used]

GetCall ==
    /\ lc_ops < MaxCacheOps
    /\ \E key \in CacheKeys :
        LET r == get(lc_cache, key, lc_now)
        IN  /\ lc_cache' = r.cache
            /\ lc_last' = Operation("get", key, r.result)
            /\ lc_used' = IF r.result # "None"
                          THEN [lc_used EXCEPT ![key] = lc_ops + 1]
                          ELSE lc_used
    /\ lc_ops' = lc_ops + 1
    /\ UNCHANGED <<lc_max_size, lc_default_ttl, lc_now>>

PutCall ==
    /\ lc_ops < MaxCacheOps
    /\ \E key \in CacheKeys, value \in CacheValues, ttl \in TtlArguments :
        /\ lc_cache' = put(lc_cache, key, value, ttl, lc_now, lc_max_size, lc_default_ttl)
        /\ lc_last' = Operation("put", key, "None")
        /\ lc_used' = [lc_used EXCEPT ![key] = lc_ops + 1]
    /\ lc_ops' = lc_ops + 1
    /\ UNCHANGED <<lc_max_size, lc_default_ttl, lc_now>>

DeleteCall ==
    /\ lc_ops < MaxCacheOps
    /\ \E key \in CacheKeys :
        LET r == delete(lc_cache, key)
        IN  /\ lc_cache' = r.cache
            /\ lc_last' = Operation("delete", key, r.result)
    /\ lc_ops' = lc_ops + 1
    /\ UNCHANGED <<lc_max_size, lc_default_ttl, lc_now, lc_used>>

CleanupExpiredCall ==
    /\ lc_ops < MaxCacheOps
    /\ LET r == cleanup_expired(lc_cache, lc_now)
       IN  /\ lc_cache' = r.cache
           /\ lc_last' = Operation("cleanup_expired", "None", r.result)
    /\ lc_ops' = lc_ops + 1
    /\ UNCHANGED <<lc_max_size, lc_default_ttl, lc_now, lc_used>>

(***************************************************************************)
(* Client handles: index/embedder.py, search/typesense_client.py,          *)
(* rag/reranker.py                                                         *)
(***************************************************************************)

MaxClientCalls == 2

\* _client = None; the client objects of a backend are numbered from 1 in
\* the order of their construction.
NoClient == 0

\* The threads that serve queries at the same time.
Threads == {"t1", "t2"}

\* The backends whose client is kept in a module-level global and built on
\* first use (index/embedder.py lines 14-22, search/typesense_client.py
\* lines 7-25), and the one whose client is a local of the call
\* (rag/reranker.py line 37).
LazyBackends == {"embedder", "typesense"}
Backends == LazyBackends \cup {"reranker"}

ClIdle ==
    /\ cl_handle = [b \in Backends |-> NoClient]
    /\ cl_constructed = [b \in Backends |-> 0]
    /\ cl_backend = [t \in Threads |-> "none"]
    /\ cl_pc = [t \in Threads |-> "idle"]
    /\ cl_client = [t \in Threads |-> NoClient]
    /\ cl_calls = [t \in Threads |-> 0]

\* A thread enters client(), get_client() or _voyage_rerank().
ClientCall(t) ==
    /\ cl_pc[t] = "idle"
    /\ cl_calls[t] < MaxClientCalls
    /\ \E b \in Backends :
        /\ cl_backend' = [cl_backend EXCEPT ![t] = b]
        /\ cl_pc' = [cl_pc EXCEPT ![t] = IF b \in LazyBackends THEN "test" ELSE "construct"]
    /\ cl_calls' = [cl_calls EXCEPT ![t] = @ + 1]
    /\ cl_client' = [cl_client EXCEPT ![t] = NoClient]
    /\ UNCHANGED <<cl_handle, cl_constructed>>

\* index/embedder.py line 18, search/typesense_client.py line 12:
\* if _client is None.
TestHandle(t) ==
    /\ cl_pc[t] = "test"
    /\ cl_pc' = [cl_pc EXCEPT ![t] = IF cl_handle[cl_backend[t]] = NoClient
                                     THEN "construct" ELSE "return"]
    /\ UNCHANGED <<cl_handle, cl_constructed, cl_backend, cl_client, cl_calls>>

\* index/embedder.py line 21, search/typesense_client.py lines 16-24:
\* _client = Client(...), a new client object stored in the global;
\* rag/reranker.py line 37: client = voyageai.Client(...), a new client
\* object kept in a local.
ConstructClient(t) ==
    /\ cl_pc[t] = "construct"
    /\ LET b == cl_backend[t]
           new == cl_constructed[b] + 1
       IN  /\ cl_constructed' = [cl_constructed EXCEPT ![b] = new]
           /\ IF b \in LazyBackends
              THEN /\ cl_handle' = [cl_handle EXCEPT ![b] = new]
                   /\ cl_pc' = [cl_pc EXCEPT ![t] = "return"]
                   /\ UNCHANGED cl_client
              ELSE /\ cl_client' = [cl_client EXCEPT ![t] = new]
                   /\ cl_pc' = [cl_pc EXCEPT ![t] = "use"]
                   /\ UNCHANGED cl_handle
    /\ UNCHANGED <<cl_backend, cl_calls>>

\* index/embedder.py line 22, search/typesense_client.py line 25:
\* return _client.
ReturnHandle(t) ==
    /\ cl_pc[t] = "return"
    /\ cl_client' = [cl_client EXCEPT ![t] = cl_handle[cl_backend[t]]]
    /\ cl_pc' = [cl_pc EXCEPT ![t] = "use"]
    /\ UNCHANGED <<cl_handle, cl_constructed, cl_backend, cl_calls>>

\* The request is made with the client and the call ends.
UseClient(t) ==
    /\ cl_pc[t] = "use"
    /\ cl_pc' = [cl_pc EXCEPT ![t] = "idle"]
    /\ UNCHANGED <<cl_handle, cl_constructed, cl_backend, cl_client, cl_calls>>

(***************************************************************************)
(* Ingestion: ingest/pipeline.py, ingest/chunkers.py                       *)
(***************************************************************************)

MaxFileLen == 3
MaxIngests == 2
ChunkTokens == 2
ChunkOverlap == 1

\* The texts a file can hold: words of the letter a separated by spaces.
FileContents ==
    UNION {[1..n -> {"a", " "}] : n \in 0..MaxFileLen}

\* Translation and archival are switched off: the text that is chunked is
\* the text that was read.
is_translation_enabled == FALSE
is_gcs_enabled == FALSE

\* ingest/pipeline.py lines 13-14: the SHA-256 digest of the bytes, taken
\* as free of collisions: the digest of a text is the text under the name
\* of the algorithm.
hash_bytes(raw) == <<"sha256", raw>>
NoHash == <<>>

\* str.split(): the maximal runs of characters that are not whitespace.
RECURSIVE SplitLoop(_, _, _, _)
SplitLoop(str, i, word, words) ==
    IF i > Len(str)
    THEN IF word = <<>> THEN words ELSE Append(words, word)
    ELSE IF str[i] \in Whitespace
         THEN SplitLoop(str, i + 1, <<>>,
                        IF word = <<>> THEN words ELSE Append(words, word))
         ELSE SplitLoop(str, i + 1, Append(word, str[i]), words)
Split(str) == SplitLoop(str, 1, <<>>, <<>>)

\* " ".join(block).
RECURSIVE JoinWords(_)
JoinWords(block) ==
    IF block = <<>> THEN <<>>
    ELSE IF Len(block) = 1 THEN block[1]
         ELSE block[1] \o <<" ">> \o JoinWords(Tail(block))

\* words[i:i+max_tokens] with i counted from 0.
WordBlock(words, i, max_tokens) ==
    SubSeq(words, i + 1, IF i + max_tokens < Len(words) THEN i + max_tokens ELSE Len(words))

\* ingest/chunkers.py lines 11-15.
RECURSIVE ChunkLoop(_, _, _, _, _, _)
ChunkLoop(words, i, seq, step, max_tokens, chunks) ==
    IF i < Len(words)
    THEN ChunkLoop(words, i + step, seq + 1, step, max_tokens,
                   Append(chunks, [seq |-> seq, text |-> JoinWords(WordBlock(words, i, max_tokens))]))
    ELSE chunks

\* ingest/chunkers.py lines 4-16.
simple_chunks(text, max_tokens, overlap) ==
    LET words == Split(text)
        step == IF max_tokens - overlap > 1 THEN max_tokens - overlap ELSE 1
    IN  ChunkLoop(words, 0, 0, step, max_tokens, <<>>)

\* The row of the chunks table that lines 120-133 write for a chunk; its
\* primary key id is the path with the seq, so seq stands for the id.
ChunkRow(c) == [seq |-> c.seq, text |-> c.text]

\* REPLACE INTO chunks: the row with the same primary key is replaced, every
\* other row stays.
RECURSIVE ReplaceInto(_, _, _)
ReplaceInto(rows, seqs, j) ==
    IF j > Len(seqs) THEN rows
    ELSE ReplaceInto({r \in rows : r.seq # seqs[j].seq} \cup {ChunkRow(seqs[j])},
                     seqs, j + 1)

\* ingest/pipeline.py lines 120-133.
StoreChunks(rows, seqs) == ReplaceInto(rows, seqs, 1)

\* ingest/parsers.py, read_text: a PDF gives its text, or the empty text
\* when the parsing fails; a file that is neither a PDF nor an image falls
\* off the end of the function, and the None it returns cannot be unpacked.
\* The bytes of the file stand for the text they hold.
ReadOutcomes == {"ok", "error", "TypeError"}
read_text(raw, read_outcome) == IF read_outcome = "ok" THEN raw ELSE <<>>

IngestReturn(hash, rows, skipped, raised, documents, chunks, text) ==
    [hash |-> hash, rows |-> rows, skipped |-> skipped, raised |-> raised,
     documents |-> documents, chunks |-> chunks, text |-> text]

\* ingest/pipeline.py lines 30-136 for one file. An exception inside
\* engine.begin() rolls the transaction back and leaves the function.
ingest_path(raw, stored_hash, rows, read_outcome) ==
    LET h == hash_bytes(raw)
    IN  IF stored_hash # NoHash /\ stored_hash = h
        THEN IngestReturn(stored_hash, rows, TRUE, "none", 0, 0, <<>>)
        ELSE IF read_outcome = "TypeError"
             THEN IngestReturn(stored_hash, rows, FALSE, read_outcome, 0, 0, <<>>)
             ELSE LET final_text == read_text(raw, read_outcome)
                      seqs == simple_chunks(final_text, ChunkTokens, ChunkOverlap)
                  IN  IngestReturn(h, StoreChunks(rows, seqs), FALSE, "none",
                                   1, Len(seqs), final_text)

NoRun ==
    [ran |-> FALSE, content |-> <<>>, hash_before |-> NoHash, rows_before |-> {},
     skipped |-> FALSE, raised |-> "none", documents |-> 0, chunks |-> 0]

IpIdle ==
    /\ ip_file = <<>>
    /\ ip_hash = NoHash
    /\ ip_chunks = {}
    /\ ip_runs = 0
    /\ ip_last = NoRun
    /\ ip_has_ingested = FALSE
    /\ ip_ingested = <<>>

\* The file exists with some text and the store is empty.
IpInit ==
    /\ ip_file \in FileContents
    /\ ip_hash = NoHash
    /\ ip_chunks = {}
    /\ ip_runs = 0
    /\ ip_last = NoRun
    /\ ip_has_ingested = FALSE
    /\ ip_ingested = <<>>

\* The file is rewritten between two runs.
WriteFile ==
    /\ \E content \in FileContents :
        /\ content # ip_file
        /\ ip_file' = content
    /\ UNCHANGED <<ip_hash, ip_chunks, ip_runs, ip_last, ip_has_ingested, ip_ingested>>

\* One run of ingest_path over the directory of the file.
IngestPathCall ==
    /\ ip_runs < MaxIngests
    /\ \E read_outcome \in ReadOutcomes :
        LET r == ingest_path(ip_file, ip_hash, ip_chunks, read_outcome)
        IN  /\ ip_hash' = r.hash
            /\ ip_chunks' = r.rows
            /\ ip_last' = [ran |-> TRUE, content |-> ip_file, hash_before |-> ip_hash,
                           rows_before |-> ip_chunks, skipped |-> r.skipped,
                           raised |-> r.raised, documents |-> r.documents,
                           chunks |-> r.chunks]
            /\ ip_has_ingested' = (ip_has_ingested \/ r.documents = 1)
            /\ ip_ingested' = IF r.documents = 1 THEN r.text ELSE ip_ingested
    /\ ip_runs' = ip_runs + 1
    /\ UNCHANGED ip_file

(***************************************************************************)
(* Specifications                                                          *)
(***************************************************************************)

InitMerge == HmIdle /\ CxIdle /\ SettingsIdle /\ SgIdle /\ RrIdle /\ ExIdle /\ GgIdle /\ ChatIdle /\ AnIdle /\ QcfgIdle /\ QIdle /\ VsIdle /\ CbIdle /\ LcIdle /\ ClIdle /\ IpIdle
NextMerge == HybridMergeCall /\ UNCHANGED <<cxVars, settingsVars, sgVars, rrVars, exVars, ggVars, chatVars, anVars, qcfgVars, qVars, vsVars, cbVars, lcVars, clVars, ipVars>>
SpecMerge == InitMerge /\ [][NextMerge]_vars

InitContext == CxIdle /\ HmIdle /\ SettingsIdle /\ SgIdle /\ RrIdle /\ ExIdle /\ GgIdle /\ ChatIdle /\ AnIdle /\ QcfgIdle /\ QIdle /\ VsIdle /\ CbIdle /\ LcIdle /\ ClIdle /\ IpIdle
NextContext ==
    \/ BuildContextCall /\ UNCHANGED <<hmVars, settingsVars, sgVars, rrVars, exVars, ggVars, chatVars, anVars, qcfgVars, qVars, vsVars, cbVars, lcVars, clVars, ipVars>>
    \/ BuildCombinedContextCall /\ UNCHANGED <<hmVars, settingsVars, sgVars, rrVars, exVars, ggVars, chatVars, anVars, qcfgVars, qVars, vsVars, cbVars, lcVars, clVars, ipVars>>
SpecContext == InitContext /\ [][NextContext]_vars

InitGround == SgInit /\ HmIdle /\ CxIdle /\ RrIdle /\ ExIdle /\ GgIdle /\ ChatIdle /\ AnIdle /\ QcfgIdle /\ QIdle /\ VsIdle /\ CbIdle /\ LcIdle /\ ClIdle /\ IpIdle
NextGround == ShouldUseGroundingCall /\ UNCHANGED <<hmVars, cxVars, rrVars, exVars, ggVars, chatVars, anVars, qcfgVars, qVars, vsVars, cbVars, lcVars, clVars, ipVars>>
SpecGround == InitGround /\ [][NextGround]_vars

InitRerank == RrInit /\ HmIdle /\ CxIdle /\ SgIdle /\ ExIdle /\ GgIdle /\ ChatIdle /\ AnIdle /\ QcfgIdle /\ QIdle /\ VsIdle /\ CbIdle /\ LcIdle /\ ClIdle /\ IpIdle
NextRerank == RerankCall /\ UNCHANGED <<hmVars, cxVars, sgVars, exVars, ggVars, chatVars, anVars, qcfgVars, qVars, vsVars, cbVars, lcVars, clVars, ipVars>>
SpecRerank == InitRerank /\ [][NextRerank]_vars

InitExpand == ExIdle /\ HmIdle /\ CxIdle /\ SettingsIdle /\ SgIdle /\ RrIdle /\ GgIdle /\ ChatIdle /\ AnIdle /\ QcfgIdle /\ QIdle /\ VsIdle /\ CbIdle /\ LcIdle /\ ClIdle /\ IpIdle
NextExpand ==
    ExpandWithNeighborsCall /\ UNCHANGED <<hmVars, cxVars, settingsVars, sgVars, rrVars, ggVars, chatVars, anVars, qcfgVars, qVars, vsVars, cbVars, lcVars, clVars, ipVars>>
SpecExpand == InitExpand /\ [][NextExpand]_vars

InitGrounder == GgInit /\ HmIdle /\ CxIdle /\ SgIdle /\ RrIdle /\ ExIdle /\ ChatIdle /\ AnIdle /\ QcfgIdle /\ QIdle /\ VsIdle /\ CbIdle /\ LcIdle /\ ClIdle /\ IpIdle
NextGrounder ==
    GoogleGroundCall /\ UNCHANGED <<hmVars, cxVars, sgVars, rrVars, exVars, chatVars, anVars, qcfgVars, qVars, vsVars, cbVars, lcVars, clVars, ipVars>>
SpecGrounder == InitGrounder /\ [][NextGrounder]_vars

InitAnswer ==
    AnInit /\ HmIdle /\ CxIdle /\ SettingsIdle /\ SgIdle /\ RrIdle /\ ExIdle /\ GgIdle
        /\ QcfgIdle /\ QIdle /\ VsIdle /\ CbIdle /\ LcIdle /\ ClIdle /\ IpIdle
NextAnswer ==
    AnswerCall /\ UNCHANGED <<hmVars, cxVars, settingsVars, sgVars, rrVars, exVars, ggVars, qcfgVars, qVars, vsVars, cbVars, lcVars, clVars, ipVars>>
SpecAnswer == InitAnswer /\ [][NextAnswer]_vars

InitQuery == QInit /\ HmIdle /\ CxIdle /\ SgIdle /\ RrIdle /\ ExIdle /\ GgIdle /\ ChatIdle /\ AnIdle /\ VsIdle /\ CbIdle /\ LcIdle /\ ClIdle /\ IpIdle
QueryIdleVars == <<hmVars, cxVars, sgVars, rrVars, exVars, ggVars, anVars, vsVars, cbVars, lcVars, clVars, ipVars>>
NextQuery ==
    \/ QueryStart /\ UNCHANGED QueryIdleVars
    \/ EmbedQuery /\ UNCHANGED QueryIdleVars
    \/ SearchQuery /\ UNCHANGED QueryIdleVars
    \/ HydrateQuery /\ UNCHANGED QueryIdleVars
    \/ RerankQuery /\ UNCHANGED QueryIdleVars
    \/ ExpandQuery /\ UNCHANGED QueryIdleVars
    \/ GroundQuery /\ UNCHANGED QueryIdleVars
    \/ BuildQuery /\ UNCHANGED QueryIdleVars
    \/ GenerateQuery /\ UNCHANGED QueryIdleVars
SpecQuery == InitQuery /\ [][NextQuery]_vars

\* The groups of the query pipeline and its components, idle.
PipelineIdle ==
    HmIdle /\ CxIdle /\ SettingsIdle /\ SgIdle /\ RrIdle /\ ExIdle /\ GgIdle
        /\ ChatIdle /\ AnIdle /\ QcfgIdle /\ QIdle
pipelineVars ==
    <<hmVars, cxVars, settingsVars, sgVars, rrVars, exVars, ggVars, chatVars,
      anVars, qcfgVars, qVars>>

InitSearch == VsIdle /\ PipelineIdle /\ CbIdle /\ LcIdle /\ ClIdle /\ IpIdle
NextSearch == VectorSearchCall /\ UNCHANGED <<pipelineVars, cbVars, lcVars, clVars, ipVars>>
SpecSearch == InitSearch /\ [][NextSearch]_vars

InitBreaker == CbInit /\ PipelineIdle /\ VsIdle /\ LcIdle /\ ClIdle /\ IpIdle
NextBreaker ==
    \/ WrapperCall /\ UNCHANGED <<pipelineVars, vsVars, lcVars, clVars, ipVars>>
    \/ Tick /\ UNCHANGED <<pipelineVars, vsVars, lcVars, clVars, ipVars>>
SpecBreaker == InitBreaker /\ [][NextBreaker]_vars

InitCache == LcInit /\ PipelineIdle /\ VsIdle /\ CbIdle /\ ClIdle /\ IpIdle
NextCache ==
    \/ GetCall /\ UNCHANGED <<pipelineVars, vsVars, cbVars, clVars, ipVars>>
    \/ PutCall /\ UNCHANGED <<pipelineVars, vsVars, cbVars, clVars, ipVars>>
    \/ DeleteCall /\ UNCHANGED <<pipelineVars, vsVars, cbVars, clVars, ipVars>>
    \/ CleanupExpiredCall /\ UNCHANGED <<pipelineVars, vsVars, cbVars, clVars, ipVars>>
    \/ CacheTick /\ UNCHANGED <<pipelineVars, vsVars, cbVars, clVars, ipVars>>
SpecCache == InitCache /\ [][NextCache]_vars

InitClients == ClIdle /\ PipelineIdle /\ VsIdle /\ CbIdle /\ LcIdle /\ IpIdle
NextClients ==
    \/ \E t \in Threads : ClientCall(t) /\ UNCHANGED <<pipelineVars, vsVars, cbVars, lcVars, ipVars>>
    \/ \E t \in Threads : TestHandle(t) /\ UNCHANGED <<pipelineVars, vsVars, cbVars, lcVars, ipVars>>
    \/ \E t \in Threads : ConstructClient(t) /\ UNCHANGED <<pipelineVars, vsVars, cbVars, lcVars, ipVars>>
    \/ \E t \in Threads : ReturnHandle(t) /\ UNCHANGED <<pipelineVars, vsVars, cbVars, lcVars, ipVars>>
    \/ \E t \in Threads : UseClient(t) /\ UNCHANGED <<pipelineVars, vsVars, cbVars, lcVars, ipVars>>
SpecClients == InitClients /\ [][NextClients]_vars

InitIngest == IpInit /\ PipelineIdle /\ VsIdle /\ CbIdle /\ LcIdle /\ ClIdle
NextIngest ==
    \/ IngestPathCall /\ UNCHANGED <<pipelineVars, vsVars, cbVars, lcVars, clVars>>
    \/ WriteFile /\ UNCHANGED <<pipelineVars, vsVars, cbVars, lcVars, clVars>>
SpecIngest == InitIngest /\ [][NextIngest]_vars

(***************************************************************************)
(* Claims about the Hybrid Merger, checked under SpecMerge                 *)
(***************************************************************************)

MergedIds == {hm_merged[i].id : i \in DOMAIN hm_merged}
InputIds == Range(hm_keyword_results) \cup Range(hm_vector_results)
Min(a, b) == IF a < b THEN a ELSE b

\* C1: for every keyword list, every vector list and every k >= 1 the list
\* returned by hybrid_merge has no two entries with the same id and has
\* length at most k.
C1_NoDuplicatesAtMostK ==
    hm_called =>
        /\ \A i, j \in DOMAIN hm_merged :
              hm_merged[i].id = hm_merged[j].id => i = j
        /\ Len(hm_merged) <= hm_k

\* A call whose lists share an id, one of them repeats an id, and together
\* hold more than k distinct ids: the merge had to drop and to stop.
C1_Witness ==
    /\ hm_called
    /\ Range(hm_keyword_results) \cap Range(hm_vector_results) # {}
    /\ \E i, j \in DOMAIN hm_vector_results :
          i # j /\ hm_vector_results[i] = hm_vector_results[j]
    /\ Cardinality(InputIds) > hm_k
    /\ Len(hm_merged) = hm_k

\* C2: round-robin interleave, the next unseen keyword item and then the next
\* unseen vector item; for keyword=[A,B,C], vector=[A,D,E] and k=4 the
\* output is [A(keyword), D(vector), B(keyword), E(vector)].
C2_RoundRobinExample ==
    ( /\ hm_called
      /\ hm_keyword_results = <<"A", "B", "C">>
      /\ hm_vector_results = <<"A", "D", "E">>
      /\ hm_k = 4 )
    => hm_merged = << Tagged("A", "keyword"), Tagged("D", "vector"),
                      Tagged("B", "keyword"), Tagged("E", "vector") >>

\* C3: hybrid_merge returns exactly min(k, U) matches, U the number of
\* distinct ids in the two lists together.
C3_ExactlyMinKUnique ==
    hm_called => Len(hm_merged) = Min(hm_k, Cardinality(InputIds))

\* A call that must run one list dry and keep pulling from the other: the
\* keyword list is shorter, the lists overlap and fewer than k ids exist.
C3_Witness ==
    /\ hm_called
    /\ Len(hm_keyword_results) < Len(hm_vector_results)
    /\ hm_keyword_results # <<>>
    /\ Range(hm_keyword_results) \cap Range(hm_vector_results) # {}
    /\ Cardinality(InputIds) < hm_k
    /\ MergedIds = InputIds

(***************************************************************************)
(* Claims about the Context Assembler, checked under SpecContext           *)
(***************************************************************************)

\* The "...\n" that line 94 puts after a cut external section.
TruncationMarker == <<".", ".", ".", "\n">>

\* t occurs in s at position i.
HasAt(s, i, t) ==
    /\ i >= 1
    /\ i + Len(t) - 1 <= Len(s)
    /\ SubSeq(s, i, i + Len(t) - 1) = t

Positions(s, t) == {i \in 1..Len(s) : HasAt(s, i, t)}

CombinedReturned ==
    cx_called = "build_combined_context" /\ cx_raised = "none"

\* C4: the string returned by build_combined_context is at most max_chars
\* plus the length of the truncation marker long.
C4_LengthWithinBudget ==
    CombinedReturned => Len(cx_result) <= cx_max_chars + Len(TruncationMarker)

\* A returned pack that holds local blocks and the external section and is
\* longer than max_chars (by the newline that joins the two parts).
C4_Witness ==
    /\ CombinedReturned
    /\ cx_local_snippets # <<>>
    /\ Positions(cx_result, ExternalHeader) # {}
    /\ Positions(cx_result, <<"[", "#">>) # {}
    /\ Len(cx_result) > cx_max_chars

RECURSIVE BlocksOfPrefix(_, _)
BlocksOfPrefix(snippets, m) ==
    IF m = 0 THEN <<>> ELSE BlocksOfPrefix(snippets, m - 1) \o Block(m, snippets[m])

\* C5: build_context returns the blocks [#1]..[#m] of the first m snippets,
\* whole, where m is the largest prefix length whose blocks fit the budget:
\* either every snippet is rendered or block m+1 would overflow.
C5_WholeBlocksOfLongestPrefix ==
    cx_called = "build_context" =>
        \E m \in 0..Len(cx_local_snippets) :
            /\ cx_result = BlocksOfPrefix(cx_local_snippets, m)
            /\ Len(cx_result) <= cx_max_chars
            /\ m < Len(cx_local_snippets) =>
                 Len(cx_result) + Len(Block(m + 1, cx_local_snippets[m + 1]))
                     > cx_max_chars

\* A call that rendered the first block and stopped at the second, which did
\* not fit in the room that was left.
C5_Witness ==
    /\ cx_called = "build_context"
    /\ Len(cx_local_snippets) = 2
    /\ cx_result = Block(1, cx_local_snippets[1])
    /\ Len(cx_result) < cx_max_chars

\* What C6 calls the budget that remains after local rendering.
RemainingAfterLocal ==
    cx_max_chars - Len(build_context(cx_local_snippets, 4 * cx_max_chars, 5))

\* C6: with a non-empty external list and at least 200 characters left after
\* local rendering, build_combined_context returns normally with the external
\* section after the local context: in full when it fits in what is left,
\* otherwise cut and ending with the ellipsis marker.
C6_ExternalSectionPresent ==
    ( /\ cx_called = "build_combined_context"
      /\ cx_external_snippets # <<>>
      /\ RemainingAfterLocal >= 200 )
    => LET local_context == build_context(cx_local_snippets, 4 * cx_max_chars, 5)
           external_context == build_external_snippets(cx_external_snippets)
       IN  /\ cx_raised = "none"
           /\ HasAt(cx_result, Len(local_context) + 2, ExternalHeader)
           /\ IF Len(external_context) <= RemainingAfterLocal
              THEN cx_result = local_context \o <<"\n">> \o external_context
              ELSE HasAt(cx_result, Len(cx_result) - Len(TruncationMarker) + 1,
                         TruncationMarker)

\* The k-th "[G#" label of the pack, counted from the left.
ExternalLabels == Positions(cx_result, <<"[", "G", "#">>)
LabelNumber(j) == Cardinality({i \in ExternalLabels : i <= j})

\* C7: in a returned pack that holds local blocks and the external section,
\* every local [#n] label comes before the external header and before every
\* [G#n] label, and the [G#n] labels are numbered 1, 2, ... from the left,
\* one per external result, each followed by the title of that result.
C7_LocalBeforeExternalInOrder ==
    ( /\ CombinedReturned
      /\ Positions(cx_result, <<"[", "#">>) # {}
      /\ ExternalLabels # {} )
    => /\ \A i \in Positions(cx_result, <<"[", "#">>) :
            /\ \A h \in Positions(cx_result, ExternalHeader) : i < h
            /\ \A j \in ExternalLabels : i < j
       /\ Cardinality(ExternalLabels) = Len(cx_external_snippets)
       /\ \A j \in ExternalLabels :
            HasAt(cx_result, j,
                  <<"[", "G", "#">> \o Dec(LabelNumber(j)) \o <<"]", " ">>
                      \o cx_external_snippets[LabelNumber(j)].title \o <<"\n">>)

\* A returned pack with two local blocks and two different external results.
C7_Witness ==
    /\ CombinedReturned
    /\ Cardinality(Positions(cx_result, <<"[", "#">>)) = 2
    /\ Cardinality(ExternalLabels) = 2
    /\ cx_external_snippets[1] # cx_external_snippets[2]
(***************************************************************************)
(* Claims about the Grounding Decider, checked under SpecGround            *)
(***************************************************************************)

\* C8: should_use_grounding returns true exactly when external search is
\* configured (API key and search-engine id both set) and the best score is
\* below the threshold or num_results < k // 2; it returns false whenever
\* external search is not configured.
C8_GroundingIffWeakAndConfigured ==
    sg_called =>
        /\ sg_result \in BOOLEAN
        /\ sg_result <=>
             ( /\ Truthy(google_search_api_key)
               /\ Truthy(google_search_cx)
               /\ \/ sg_best_score < grounding_sim_threshold
                  \/ sg_num_results < (sg_k \div 2) )
        /\ ~(Truthy(google_search_api_key) /\ Truthy(google_search_cx))
             => sg_result = FALSE

\* A decision on the weakest local evidence (lowest score, no result) while
\* the search-engine id is missing.
C8_Witness ==
    /\ sg_called
    /\ Truthy(google_search_api_key)
    /\ ~Truthy(google_search_cx)
    /\ sg_best_score < grounding_sim_threshold
    /\ sg_num_results = 0
    /\ sg_k >= 2
    /\ sg_result = FALSE

(***************************************************************************)
(* Claims about the Reranker, checked under SpecRerank                     *)
(***************************************************************************)

\* C9: rerank never aborts the query and follows the provider chain: when
\* Voyage is configured and its call fails, Cohere is tried if it is
\* configured; the input list is returned unchanged only when no configured
\* provider succeeds.
C9_ProviderChain ==
    (rr_called /\ rr_snippets # <<>>) =>
        /\ rr_raised = "none"
        /\ ( /\ Truthy(voyage_api_key)
             /\ rr_voyage_outcome.kind # "ok"
             /\ Truthy(cohere_api_key) ) => rr_cohere_called
        /\ rr_result = rr_snippets =>
             /\ ~(Truthy(voyage_api_key) /\ rr_voyage_outcome.kind = "ok")
             /\ ~(Truthy(cohere_api_key) /\ rr_cohere_outcome.kind = "ok")

\* C10: with no rerank provider configured, rerank returns the ids of its
\* input in the same order, every field of every snippet unchanged and no
\* rerank_score added.
C10_IdentityWhenUnconfigured ==
    (rr_called /\ ~Truthy(voyage_api_key) /\ ~Truthy(cohere_api_key)) =>
        /\ rr_raised = "none"
        /\ Len(rr_result) = Len(rr_snippets)
        /\ \A i \in DOMAIN rr_result :
              /\ rr_result[i].id = rr_snippets[i].id
              /\ "rerank_score" \notin DOMAIN rr_result[i]
              /\ rr_result[i] = rr_snippets[i]

\* A call with no key set on two snippets that a provider, had it been
\* called, would have put in the opposite order.
C10_Witness ==
    /\ rr_called
    /\ ~Truthy(voyage_api_key)
    /\ ~Truthy(cohere_api_key)
    /\ Len(rr_snippets) = 2
    /\ rr_voyage_outcome.kind = "ok"
    /\ rr_voyage_outcome.results[1].index = 2
    /\ rr_result = rr_snippets

(***************************************************************************)
(* Claims about the Neighbor Expander, checked under SpecExpand            *)
(***************************************************************************)

SnippetIds(snippets) == {snippets[i].id : i \in DOMAIN snippets}

\* The input already holds, for each of its snippets, every stored chunk of
\* the same document from 'left' before to 'right' after it.
WindowsComplete(snippets, left, right) ==
    \A i \in DOMAIN snippets : \A c \in Chunks :
        (/\ c.document_id = snippets[i].doc
         /\ snippets[i].seq - left <= c.seq
         /\ c.seq <= snippets[i].seq + right)
            => c.id \in SnippetIds(snippets)

\* C11: when the list given to expand_with_neighbors already contains every
\* stored chunk of each snippet's window, expansion adds no snippet: every
\* identifier of the output is an identifier of the input.
C11_MaximalWindowAddsNothing ==
    (ex_called /\ WindowsComplete(ex_snippets, ex_left, ex_right))
        => SnippetIds(ex_result) \subseteq SnippetIds(ex_snippets)

\* A call that returned normally on two adjacent chunks and the one after
\* them, with a window of one on each side: every neighbour the store
\* returned was already in the input.
C11_Witness ==
    /\ ex_called
    /\ ex_failed_step = "none"
    /\ ex_left = 1 /\ ex_right = 1
    /\ SnippetIds(ex_snippets) = {"d0", "d1", "d2"}
    /\ WindowsComplete(ex_snippets, ex_left, ex_right)
    /\ SnippetIds(ex_result) = {"d0", "d1", "d2"}

\* C12: when engine.begin(), a query, or the sort raises inside
\* expand_with_neighbors, the call returns the list it was given: the same
\* snippets in the same order, none of them a neighbour.
C12_FailureReturnsInput ==
    (ex_called /\ ex_failed_step # "none")
        => /\ ex_result = ex_snippets
           /\ \A i \in DOMAIN ex_result : ex_result[i].neighbor_of = "None"

\* The second query of a call raised after the first one had already
\* brought a neighbour into the accumulated list.
C12_Witness ==
    /\ ex_called
    /\ ex_failed_step = "execute"
    /\ ex_db.executes = 1
    /\ Len(ex_snippets) >= 2
    /\ ex_snippets[1].id = "d0" /\ ex_right = 1
    /\ "d1" \notin SnippetIds(ex_snippets)
    /\ ex_result = ex_snippets

\* C13: no snippet of the output that carries a neighbor_of tag has the
\* identifier of an input snippet.
C13_InputNeverEmittedAsNeighbor ==
    ex_called =>
        \A i \in DOMAIN ex_result :
            ex_result[i].neighbor_of # "None"
                => ex_result[i].id \notin SnippetIds(ex_snippets)

(***************************************************************************)
(* Claims about the query surfaces, checked under SpecQuery                *)
(***************************************************************************)

\* The surface has returned or printed an answer that is not the one of an
\* except clause.
AnsweredNormally ==
    /\ q_pc = "done"
    /\ q_failed_stage = "none"
    /\ q_raised = "none"

\* The parts of a label stand in the order in which their stages execute:
\* the search first, then '+rerank', then '+grounding', each at most once.
PartRank(part) ==
    CASE part \in {"vector", "hybrid"} -> 1
      [] part = "+rerank" -> 2
      [] part = "+grounding" -> 3
      [] OTHER -> 0
InExecutionOrder(label) ==
    /\ label # <<>>
    /\ PartRank(label[1]) = 1
    /\ \A i \in DOMAIN label : \A j \in DOMAIN label :
           i < j => PartRank(label[i]) < PartRank(label[j])

\* C14: the search_type label of an answer names a stage if and only if that
\* stage contributed: 'hybrid' exactly when hybrid_search returned the merged
\* matches, '+rerank' exactly when a rerank provider re-scored the snippets,
\* '+grounding' exactly when external results were added, and the parts stand
\* in execution order.
C14_LabelNamesContributingStages ==
    AnsweredNormally =>
        /\ InExecutionOrder(q_response.search_type)
        /\ "hybrid" \in Range(q_response.search_type)
               <=> "hybrid_search" \in Range(q_stages)
        /\ "+rerank" \in Range(q_response.search_type)
               <=> q_rescored_by # "none"
        /\ "+grounding" \in Range(q_response.search_type)
               <=> q_external_snippets # <<>>

C16_HybridSearchCompletes ==
    (q_pc = "done" /\ q_hybrid /\ Truthy(typesense_api_key) /\ q_typesense = "up")
        => /\ q_failed_stage # "hybrid_search"
           /\ AnsweredNormally => q_response.search_type[1] = "hybrid"

\* The stages that follow the search.
LaterStages ==
    {"hydrate_matches", "rerank", "expand_with_neighbors", "google_ground",
     "build_combined_context", "answer"}

\* C17: when embed_texts or vector_search raises, that stage is the last one
\* of the query: no later stage runs, cmd_ask raises the exception and /query
\* responds with search_type 'error' and sources_count 0.
C17_RetrievalFailureEndsQuery ==
    q_failed_stage \in {"embed_texts", "vector_search"}
        => /\ q_pc = "done"
           /\ q_stages[Len(q_stages)] = q_failed_stage
           /\ Range(q_stages) \cap LaterStages = {}
           /\ q_surface = "cmd_ask" => q_raised = q_exception
           /\ q_surface = "query"
                  => /\ q_raised = "none"
                     /\ q_response.search_type = <<"error">>
                     /\ q_response.sources_count = 0

\* /query had embedded the query when the vector search for a reranked
\* request raised, and it responded with the error outcome.
C17_Witness ==
    /\ q_pc = "done"
    /\ q_surface = "query"
    /\ q_rerank
    /\ q_failed_stage = "vector_search"
    /\ q_stages = <<"embed_texts", "vector_search">>
    /\ q_response.search_type = <<"error">>

\* C18: when the pack that build_combined_context returned is empty or
\* whitespace only, the surface gives its fixed 'not enough context' message
\* and answer() is not called for the query.
C18_EmptyPackSkipsGeneration ==
    (q_pc = "done" /\ "build_combined_context" \in Range(q_stages)
        /\ q_failed_stage = "none" /\ Strip(q_pack) = <<>>)
        => /\ "answer" \notin Range(q_stages)
           /\ q_raised = "none"
           /\ q_response.answer = NotEnoughContext(q_surface)

\* The index held no vector for the query of cmd_ask and grounding found
\* nothing: the pack was empty and the fixed message was printed.
C18_Witness ==
    /\ q_pc = "done"
    /\ q_surface = "cmd_ask"
    /\ q_matches = <<>>
    /\ "google_ground" \in Range(q_stages)
    /\ "build_combined_context" \in Range(q_stages)
    /\ q_pack = <<>>
    /\ "answer" \notin Range(q_stages)
    /\ q_response.answer = NotEnoughContext("cmd_ask")

(***************************************************************************)
(* Claims about the Generator, checked under SpecAnswer                    *)
(***************************************************************************)

\* C19: answer never raises because a chat provider failed. When Vertex
\* chat is enabled and its call fails, the OpenAI call is made; when the
\* OpenAI call fails, the returned string is the apology naming the error.
C19_AnswerNeverRaises ==
    an_called =>
        /\ an_raised = "none"
        /\ (is_vertex_chat_enabled /\ an_vertex_outcome.kind # "ok")
               => (an_vertex_called /\ an_openai_called)
        /\ (an_openai_called /\ an_openai_outcome.kind # "ok")
               => an_result = Formatted("I apologize, but I encountered an error while generating the response: ",
                                         an_openai_outcome.kind)

\* Vertex chat was enabled and failed, then the OpenAI call failed too, and
\* answer returned the apology.
C19_Witness ==
    /\ an_called
    /\ is_vertex_chat_enabled
    /\ an_vertex_called /\ an_vertex_outcome.kind = "RuntimeError"
    /\ an_openai_called /\ an_openai_outcome.kind = "APIError"
    /\ an_raised = "none"
    /\ an_result.detail = "APIError"

(***************************************************************************)
(* Claims about the Grounder, checked under SpecGrounder                   *)
(***************************************************************************)

\* C20: google_ground never raises. With a credential missing or the
\* request failing it returns the empty list; otherwise it returns at most
\* max_results results, each with a non-empty title and a non-empty snippet.
C20_GoogleGroundNeverRaises ==
    gg_called =>
        /\ gg_raised = "none"
        /\ (\/ ~Truthy(google_search_api_key)
            \/ ~Truthy(google_search_cx)
            \/ gg_http.kind # "ok") => gg_result = <<>>
        /\ Len(gg_result) <= gg_max_results
        /\ \A i \in DOMAIN gg_result :
               gg_result[i].title # <<>> /\ gg_result[i].snippet # <<>>

\* A configured search answered with three items, the second without a
\* title; with max_results = 2 the call returned the first item only.
C20_Witness ==
    /\ gg_called
    /\ Truthy(google_search_api_key) /\ Truthy(google_search_cx)
    /\ gg_http.kind = "ok" /\ Len(gg_http.items) = 3
    /\ gg_http.items[1].title # <<>> /\ gg_http.items[1].snippet # <<>>
    /\ gg_http.items[2].title = <<>>
    /\ gg_max_results = 2
    /\ Len(gg_result) = 1

(***************************************************************************)
(* Claims about the Vector Retriever, checked under SpecSearch             *)
(***************************************************************************)

\* The greatest score of a non-empty match list.
MaxScoreOf(matches) ==
    CHOOSE x \in {matches[i].score : i \in DOMAIN matches} :
        \A i \in DOMAIN matches : matches[i].score <= x

\* C21: when the index returns at least one match, the best score that
\* vector_search returns is the maximum of the scores of the returned
\* matches, and the match list has one entry per match of the index, in the
\* order of the index.
C21_BestScoreIsMaximum ==
    (vs_called /\ vs_raised = "none" /\ vs_matches # <<>>)
        => /\ vs_best_score = MaxScoreOf(vs_matches)
           /\ Len(vs_matches) = Len(Take(vs_pinecone.index, vs_top_k))
           /\ \A i \in DOMAIN vs_matches :
                  /\ vs_matches[i].id = vs_pinecone.index[i].id
                  /\ vs_matches[i].score = vs_pinecone.index[i].score

\* C22: vector_search called with an empty query vector, with top_k = 0 or
\* with top_k = -1 raises ValueError or TypeError and does not query the
\* index.
C22_InvalidInputRejected ==
    (vs_called /\ (vs_query_vec = <<>> \/ vs_top_k < 1))
        => /\ vs_raised \in {"ValueError", "TypeError"}
           /\ ~vs_queried

(***************************************************************************)
(* Claims about the Grounding Decider and the configuration switch,        *)
(* checked under SpecGround                                                *)
(***************************************************************************)

\* C23: should_use_grounding returns false whenever is_grounding_enabled()
\* is false, however weak the local evidence is.
C23_FalseWhenGroundingDisabled ==
    (sg_called /\ ~is_grounding_enabled) => sg_result = FALSE

(***************************************************************************)
(* Claims about the order and the size of the stages, checked under        *)
(* SpecQuery                                                               *)
(***************************************************************************)

\* The positions at which a stage stands in the history of a query.
StagePositions(stage) == {i \in DOMAIN q_stages : q_stages[i] = stage}

\* C24: every query that cmd_ask or /query answers has run
\* expand_with_neighbors exactly once, after hydrate_matches and rerank and
\* before google_ground and build_combined_context.
C24_ExpansionExactlyOnce ==
    AnsweredNormally =>
        /\ Cardinality(StagePositions("expand_with_neighbors")) = 1
        /\ \A e \in StagePositions("expand_with_neighbors") :
               /\ \A i \in StagePositions("hydrate_matches") \cup StagePositions("rerank") : i < e
               /\ \A i \in StagePositions("google_ground")
                               \cup StagePositions("build_combined_context") : e < i

\* The retrieval and rerank stage has just handed its snippets on: to
\* expansion in /query, to the grounding decision in cmd_ask.
HandedOn ==
    \/ q_surface = "query" /\ q_pc = "expand"
    \/ q_surface = "cmd_ask" /\ q_pc = "ground"

\* C30: the snippets that the retrieval and rerank stage hands on are at
\* most k, whatever the hybrid and rerank toggles are and whether or not a
\* rerank provider is configured.
C30_AtMostKHandedOn ==
    HandedOn => Len(q_snippets) <= q_k

(***************************************************************************)
(* Claims about the Circuit Breaker, checked under SpecBreaker             *)
(***************************************************************************)

\* The last call found the breaker open with less than recovery_timeout
\* elapsed since its last failure.
CalledWhileCooling ==
    /\ cb_last.made
    /\ cb_last.before.state = "open"
    /\ cb_last.at - cb_last.before.last_failure_time < cb_recovery_timeout

\* The last call found the breaker open with recovery_timeout elapsed since
\* its last failure.
CalledAfterCooling ==
    /\ cb_last.made
    /\ cb_last.before.state = "open"
    /\ cb_last.at - cb_last.before.last_failure_time >= cb_recovery_timeout

\* C25: a breaker starts closed; after failure_threshold consecutive
\* expected failures of the wrapped function it is open; a call made while
\* it is open and cooling does not invoke the wrapped function and raises
\* the breaker's expected exception type.
C25_OpensAndRefuses ==
    /\ cb_calls = 0 => cb_state = "closed"
    /\ cb_streak >= cb_failure_threshold => cb_state = "open"
    /\ CalledWhileCooling
           => /\ ~cb_last.invoked
              /\ cb_last.raised = cb_expected_exception

\* C26: a call made once the breaker is open and recovery_timeout has
\* elapsed invokes the wrapped function; when that trial returns the breaker
\* is closed with failure_count 0 and no last_failure_time; when it raises
\* the expected exception the breaker is open with the time of the trial as
\* its last failure, and a call within recovery_timeout of a last failure
\* does not invoke the wrapped function.
C26_TrialAfterRecoveryTimeout ==
    /\ CalledAfterCooling
           => /\ cb_last.invoked
              /\ cb_last.outcome = "ok"
                     => /\ cb_state = "closed"
                        /\ cb_failure_count = 0
                        /\ cb_last_failure_time = NoTime
              /\ (cb_last.outcome # "ok" /\ Catches(cb_expected_exception, cb_last.outcome))
                     => /\ cb_state = "open"
                        /\ cb_last_failure_time = cb_last.at
    /\ CalledWhileCooling
           => /\ ~cb_last.invoked
              /\ cb_last.raised # "none"
              /\ cb_state = "open"

\* The embedding breaker had opened; after recovery_timeout a trial call was
\* let through, failed with EmbeddingServiceError and opened it again.
C26_Witness ==
    /\ CalledAfterCooling
    /\ cb_expected_exception = "EmbeddingServiceError"
    /\ cb_last.invoked
    /\ cb_last.outcome = "EmbeddingServiceError"
    /\ cb_state = "open"
    /\ cb_last_failure_time = cb_last.at
    /\ cb_last.at > 0

(***************************************************************************)
(* Claims about the LRU cache, checked under SpecCache                     *)
(***************************************************************************)

\* The key of a non-empty cache whose last insertion or successful read is
\* the oldest, used[key] being the number of the operation that did it.
LeastRecentlyUsed(cache, used) ==
    CHOOSE key \in KeysOf(cache) :
        \A other \in KeysOf(cache) : used[key] <= used[other]

\* C27: the cache never holds more than max_size entries, one per key; a
\* put that finds max_size entries removes the least recently used key and
\* no other; a get returns a value only for an entry that is present and
\* whose age is not greater than its ttl.
C27_BoundedLruWithExpiry ==
    /\ Len(lc_cache) <= lc_max_size
    /\ Cardinality(KeysOf(lc_cache)) = Len(lc_cache)
    /\ (lc_last.op = "put" /\ Len(lc_last.before) >= lc_max_size)
           => KeysOf(lc_cache)
                  = (KeysOf(lc_last.before)
                         \ {LeastRecentlyUsed(lc_last.before, lc_last.used)})
                     \cup {lc_last.key}
    /\ (lc_last.op = "put" /\ Len(lc_last.before) < lc_max_size)
           => KeysOf(lc_cache) = KeysOf(lc_last.before) \cup {lc_last.key}
    /\ (lc_last.op = "get" /\ lc_last.result # "None")
           => /\ lc_last.key \in KeysOf(lc_last.before)
              /\ LET entry == EntryOf(lc_last.before, lc_last.key)
                 IN  /\ lc_last.result = entry.value
                     /\ entry.ttl # NoTtl => lc_last.at - entry.created_at <= entry.ttl

\* With max_size 2, a was put before b and read after it; the put of c then
\* found the cache full and removed b, the more recently inserted key.
C27_Witness ==
    /\ lc_max_size = 2
    /\ lc_last.op = "put" /\ lc_last.key = "c"
    /\ KeysOf(lc_last.before) = {"a", "b"}
    /\ EntryOf(lc_last.before, "a").created_at < EntryOf(lc_last.before, "b").created_at
    /\ lc_last.used["a"] > lc_last.used["b"]
    /\ KeysOf(lc_cache) = {"a", "c"}

(***************************************************************************)
(* Claims about the client handles, checked under SpecClients              *)
(***************************************************************************)

\* C28: for each backend at most one client object is constructed in the
\* life of the process, under every interleaving of the threads, and every
\* call works with that one object.
C28_ClientConstructedOnce ==
    /\ \A b \in Backends : cl_constructed[b] <= 1
    /\ \A t \in Threads : cl_pc[t] = "use" => cl_client[t] = 1

(***************************************************************************)
(* Claims about ingestion, checked under SpecIngest                        *)
(***************************************************************************)

\* The rows that the chunks of a text make.
RowsOf(text) ==
    LET seqs == simple_chunks(text, ChunkTokens, ChunkOverlap)
    IN  {ChunkRow(seqs[j]) : j \in DOMAIN seqs}

\* C29: after every run of ingest_path the chunks stored for the file are
\* the chunks of the text it last ingested, numbered 0..n-1, with no row of
\* an earlier version left; a run that finds the stored hash equal to the
\* hash of the file leaves the documents row and the chunks as they were.
C29_ChunksAreThoseOfLastIngest ==
    /\ ip_has_ingested
           => /\ ip_chunks = RowsOf(ip_ingested)
              /\ {r.seq : r \in ip_chunks} = 0..(Cardinality(ip_chunks) - 1)
    /\ (ip_last.ran /\ ip_last.hash_before = hash_bytes(ip_last.content))
           => /\ ip_last.skipped
              /\ ip_hash = ip_last.hash_before
              /\ ip_chunks = ip_last.rows_before
====
